---- MODULE Spec2Model ----
(***************************************************************************)
(* Test-point overlap matchers and net joins of extract_cadence.           *)
(*                                                                         *)
(*   released_crit/criteria_35/criteria_35_4.py  test point vs pad         *)
(*   released_crit/criteria_37/criteria_37_4.py  test point vs component   *)
(*   legacy_files/criteria_35_4.py               test point vs pad, R-tree *)
(*                                                                         *)
(* and the net joins judge_io_connector_in_tp_network of                   *)
(*                                                                         *)
(*   final_scripts/criteria_32/criteria_32_3.py  test point x connector    *)
(*   final_scripts/criteria_29/crit_29_3.py      test point x connector pin*)
(*                                                                         *)
(* Numbers.  The tables hold floats; the model holds integers.  Every      *)
(* length the geometry code computes is kept in DOUBLED units, so that     *)
(* width / 2 is exact: a table value v enters the geometry as Dbl(v), a    *)
(* diameter enters as the doubled radius.  A distance is the exact real    *)
(*        lin + sqrt(num / den)        (doubled units)                     *)
(* or +infinity, held as a record; comparisons with 0 and between          *)
(* distances are decided exactly on that form.                             *)
(***************************************************************************)
EXTENDS Integers, Sequences, FiniteSets, TLC

VARIABLES criteria, tp_df, pad_df, component_df,
          results_35_4, results_37_4, results_legacy, legacy_candidates, ran,
          connector_df, results_32_3, results_29_3,
          todo, partial,
          call, returned,
          runs, previous,
          sym_name_df,
          file, line_num, tables, current_table, current_table_lines

\* the tables and results of the overlap matchers, of the net joins, and the
\* progress of a matcher whose passes are scheduled one by one
matcher_vars == <<pad_df, component_df, results_35_4, results_37_4,
                  results_legacy, legacy_candidates>>
net_join_vars == <<connector_df, results_32_3, results_29_3>>
pass_vars == <<todo, partial>>
\* a call of a geometry function and the value it returned
geometry_vars == <<call, returned>>
\* the number of runs of a matcher on the same tables and the result before the last
rerun_vars == <<runs, previous>>
\* the sheet SYM_NAME that get_component_list reads
sheet_vars == <<sym_name_df>>
\* the text file and the locals of parse_cadence_file
splitter_vars == <<file, line_num, tables, current_table, current_table_lines>>

vars == <<criteria, tp_df, pad_df, component_df,
          results_35_4, results_37_4, results_legacy, legacy_candidates, ran,
          connector_df, results_32_3, results_29_3, todo, partial,
          call, returned, runs, previous, sym_name_df,
          file, line_num, tables, current_table, current_table_lines>>

(***************************************************************************)
(* Bounds of the model.                                                    *)
(***************************************************************************)
MaxCoord == 1
MaxWidth == 2
MaxRows == 4

(***************************************************************************)
(* Exact arithmetic on distances.                                          *)
(***************************************************************************)
\* the difference itself, its sign kept
Abs_signed(v) == v
Abs(v) == IF v < 0 THEN -v ELSE v
\* the lesser of the two
Max2_least(a, b) == IF a <= b THEN a ELSE b
Max2(a, b) == IF a >= b THEN a ELSE b
Min2(a, b) == IF a <= b THEN a ELSE b
Sq(v) == v * v
Dbl(v) == 2 * v

\* the integer v
DInt(v) == [inf |-> FALSE, lin |-> v, num |-> 0, den |-> 1]
\* sqrt(n / d), d > 0
DRoot(n, d) == [inf |-> FALSE, lin |-> 0, num |-> n, den |-> d]
\* float('inf')
DInf == [inf |-> TRUE, lin |-> 0, num |-> 0, den |-> 1]
\* float('nan'), kept as sqrt(0/0); d - r stays NaN
DNaN == [inf |-> FALSE, lin |-> 0, num |-> 0, den |-> 0]
IsNaN(d) == ~d.inf /\ d.den = 0
\* d, the radii not taken off
DSub_nothing(d, r) == d
\* d - r
DSub(d, r) == IF d.inf THEN d ELSE [d EXCEPT !.lin = @ - r]

\* lin + sqrt(num/den) < 0, = 0, <= 0
\* every comparison with NaN is false
Lt0(d) == ~d.inf /\ ~IsNaN(d) /\ d.lin < 0 /\ d.num < Sq(d.lin) * d.den
Eq0(d) == ~d.inf /\ ~IsNaN(d) /\ d.lin <= 0 /\ d.num = Sq(d.lin) * d.den
Le0(d) == Lt0(d) \/ Eq0(d)

\* a < b for two distances that are each an integer or a pure root
DLess(a, b) ==
    CASE IsNaN(a) \/ IsNaN(b) -> FALSE
      [] a.inf -> FALSE
      [] b.inf -> TRUE
      [] a.num = 0 /\ b.num = 0 -> a.lin < b.lin
      [] a.num = 0 /\ b.num # 0 -> a.lin <= 0 \/ Sq(a.lin) * b.den < b.num
      [] a.num # 0 /\ b.num = 0 -> b.lin > 0 /\ a.num < Sq(b.lin) * a.den
      [] OTHER -> a.num * b.den < b.num * a.den
DMin(a, b) == IF DLess(b, a) THEN b ELSE a

(***************************************************************************)
(* criteria_35_4.py (released): geometry.                                  *)
(***************************************************************************)
\* t not clipped: the distance to the line through a and b
_dist_point_to_segment_unclamped(p, a, b) ==
    IF a = b
    THEN DRoot(Sq(p[1] - a[1]) + Sq(p[2] - a[2]), 1)
    ELSE DRoot((Sq(p[1] - a[1]) + Sq(p[2] - a[2]))
                   * (Sq(b[1] - a[1]) + Sq(b[2] - a[2]))
               - Sq((p[1] - a[1]) * (b[1] - a[1]) + (p[2] - a[2]) * (b[2] - a[2])),
               Sq(b[1] - a[1]) + Sq(b[2] - a[2]))

\* np.linalg.norm(p - closest_point), closest_point = a + clip(t, 0, 1) * (b - a)
_dist_point_to_segment(p, a, b) ==
    IF a = b
    THEN DRoot(Sq(p[1] - a[1]) + Sq(p[2] - a[2]), 1)
    ELSE LET seg_vec == <<b[1] - a[1], b[2] - a[2]>>
             p_vec == <<p[1] - a[1], p[2] - a[2]>>
             seg_len_sq == Sq(seg_vec[1]) + Sq(seg_vec[2])
             dot == p_vec[1] * seg_vec[1] + p_vec[2] * seg_vec[2]
         IN  IF dot <= 0
             THEN DRoot(Sq(p_vec[1]) + Sq(p_vec[2]), 1)
             ELSE IF dot >= seg_len_sq
             THEN DRoot(Sq(p[1] - b[1]) + Sq(p[2] - b[2]), 1)
             ELSE DRoot((Sq(p_vec[1]) + Sq(p_vec[2])) * seg_len_sq - Sq(dot),
                        seg_len_sq)

\* the distance to the rectangle as a set: 0 for a point inside
_dist_signed_point_to_rect_unsigned(p, rect_center, rect_w, rect_h) ==
    LET delta == <<Abs(p[1] - rect_center[1]) - rect_w \div 2,
                   Abs(p[2] - rect_center[2]) - rect_h \div 2>>
    IN  DRoot(Sq(Max2(delta[1], 0)) + Sq(Max2(delta[2], 0)), 1)

_dist_signed_point_to_rect(p, rect_center, rect_w, rect_h) ==
    LET half_w == rect_w \div 2
        half_h == rect_h \div 2
        delta == <<Abs(p[1] - rect_center[1]) - half_w,
                   Abs(p[2] - rect_center[2]) - half_h>>
    IN  IF delta[1] <= 0 /\ delta[2] <= 0
        THEN DInt(Max2(delta[1], delta[2]))
        ELSE DRoot(Sq(Max2(delta[1], 0)) + Sq(Max2(delta[2], 0)), 1)

_calculate_distance(tp_shape, tp_params, pad_shape, pad_params) ==
    CASE tp_shape = "RECT" /\ pad_shape = "RECT" ->
            LET tp_c == tp_params[1]
                pad_c == pad_params[1]
                dx == Abs(tp_c[1] - pad_c[1])
                dy == Abs(tp_c[2] - pad_c[2])
                gap_x == dx - (tp_params[2] \div 2 + pad_params[2] \div 2)
                gap_y == dy - (tp_params[3] \div 2 + pad_params[3] \div 2)
            IN  IF gap_x <= 0 /\ gap_y <= 0 THEN DInt(Max2(gap_x, gap_y))
                ELSE IF gap_x > 0 /\ gap_y <= 0 THEN DInt(gap_x)
                ELSE IF gap_x <= 0 /\ gap_y > 0 THEN DInt(gap_y)
                ELSE DRoot(Sq(gap_x) + Sq(gap_y), 1)
      [] tp_shape = "RECT" /\ pad_shape = "CIRCLE" ->
            DSub(_dist_signed_point_to_rect(pad_params[1], tp_params[1],
                                            tp_params[2], tp_params[3]),
                 pad_params[2])
      [] tp_shape = "CIRCLE" /\ pad_shape = "RECT" ->
            DSub(_dist_signed_point_to_rect(tp_params[1], pad_params[1],
                                            pad_params[2], pad_params[3]),
                 tp_params[2])
      [] tp_shape = "CIRCLE" /\ pad_shape = "CIRCLE" ->
            DSub(DRoot(Sq(tp_params[1][1] - pad_params[1][1])
                       + Sq(tp_params[1][2] - pad_params[1][2]), 1),
                 tp_params[2] + pad_params[2])
      [] tp_shape = "LINE" /\ pad_shape = "RECT" ->
            LET tp_a == tp_params[1]
                tp_b == tp_params[2]
                pad_c == pad_params[1]
                pad_w == pad_params[2]
                pad_h == pad_params[3]
                dist_a == _dist_signed_point_to_rect(tp_a, pad_c, pad_w, pad_h)
                dist_b == _dist_signed_point_to_rect(tp_b, pad_c, pad_w, pad_h)
                rc1 == <<pad_c[1] - pad_w \div 2, pad_c[2] - pad_h \div 2>>
                rc2 == <<pad_c[1] + pad_w \div 2, pad_c[2] - pad_h \div 2>>
                rc3 == <<pad_c[1] + pad_w \div 2, pad_c[2] + pad_h \div 2>>
                rc4 == <<pad_c[1] - pad_w \div 2, pad_c[2] + pad_h \div 2>>
                dist_c1 == _dist_point_to_segment(rc1, tp_a, tp_b)
                dist_c2 == _dist_point_to_segment(rc2, tp_a, tp_b)
                dist_c3 == _dist_point_to_segment(rc3, tp_a, tp_b)
                dist_c4 == _dist_point_to_segment(rc4, tp_a, tp_b)
            IN  IF Lt0(DMin(dist_a, dist_b)) THEN DMin(dist_a, dist_b)
                ELSE DMin(dist_a, DMin(dist_b, DMin(dist_c1,
                          DMin(dist_c2, DMin(dist_c3, dist_c4)))))
      [] tp_shape = "LINE" /\ pad_shape = "CIRCLE" ->
            DSub(_dist_point_to_segment(pad_params[1], tp_params[1], tp_params[2]),
                 pad_params[2])
      [] OTHER -> DInf

(***************************************************************************)
(* criteria_35_4.py (released): judge_tp_pad_pin_positions.                *)
(***************************************************************************)
\* the comparison with the raw layer is dropped: every row passes
layer_filter_keep_all(df, raw) == df

\* tp_df[tp_df['layer'] == raw], pad_df[pad_df['layer'] == raw]
layer_filter(df, raw) == SelectSeq(df, LAMBDA row : row.layer = raw)

\* the radius taken from the column height
tp_circle_of_height(tp_row) ==
    [shape |-> "CIRCLE",
     params |-> <<<<Dbl(tp_row.x), Dbl(tp_row.y)>>, tp_row.height>>]

\* tp_shape, tp_params: "testpoints are always circles", width is the diameter
tp_circle(tp_row) ==
    [shape |-> "CIRCLE",
     params |-> <<<<Dbl(tp_row.x), Dbl(tp_row.y)>>, tp_row.width>>]

\* the line marker is not recognised: the pad becomes a rectangle
pad_shape_35_4_no_line(pad_row) ==
    IF pad_row.PAD_SHAPE_NAME = "CIRCLE"
    THEN [shape |-> "CIRCLE",
          params |-> <<<<Dbl(pad_row.x), Dbl(pad_row.y)>>, pad_row.width>>]
    ELSE [shape |-> "RECT",
          params |-> <<<<Dbl(pad_row.x), Dbl(pad_row.y)>>,
                       Dbl(pad_row.width), Dbl(pad_row.height)>>]

\* pad_shape, pad_params from PAD_SHAPE_NAME
pad_shape_35_4(pad_row) ==
    IF pad_row.PAD_SHAPE_NAME = "CIRCLE"
    THEN [shape |-> "CIRCLE",
          params |-> <<<<Dbl(pad_row.x), Dbl(pad_row.y)>>, pad_row.width>>]
    ELSE IF pad_row.PAD_SHAPE_NAME = "FIG_SHAPE SHAPE1_5X2_4"
    THEN [shape |-> "LINE",
          params |-> <<<<Dbl(pad_row.x), Dbl(pad_row.y)>>,
                       <<Dbl(pad_row.width), Dbl(pad_row.height)>>>>]
    ELSE [shape |-> "RECT",
          params |-> <<<<Dbl(pad_row.x), Dbl(pad_row.y)>>,
                       Dbl(pad_row.width), Dbl(pad_row.height)>>]

\* the columns that tp_params is built from
tp_operands == {"x", "y", "width"}

\* the columns of the pad that the branch taken for a circular test point does
\* arithmetic on; against a LINE pad no branch is taken and no column is read
pad_operands_35_4(pad_shape) ==
    CASE pad_shape = "CIRCLE" -> {"x", "y", "width"}
      [] pad_shape = "RECT" -> {"x", "y", "width", "height"}
      [] OTHER -> {}

\* a missing cell is read as 0.0 by the arithmetic
nan_reaches_35_4_read_as_zero(tp_row, pad_row) == FALSE

\* a NaN operand makes the distance NaN: in _dist_signed_point_to_rect the test
\* delta[0] <= 0 and delta[1] <= 0 is false, np.maximum and np.linalg.norm
\* hand the NaN on, and so does the subtraction of the radius
nan_reaches_35_4(tp_row, pad_row) ==
    LET pad_shape == pad_shape_35_4(pad_row).shape
    IN  /\ pad_operands_35_4(pad_shape) # {}
        /\ \/ tp_row.nan \cap tp_operands # {}
           \/ pad_row.nan \cap pad_operands_35_4(pad_shape) # {}

\* distance = _calculate_distance(tp_shape, tp_params, pad_shape, pad_params)
pair_distance_35_4(tp_row, pad_row) ==
    IF nan_reaches_35_4(tp_row, pad_row) THEN DNaN
    ELSE _calculate_distance(tp_circle(tp_row).shape, tp_circle(tp_row).params,
                             pad_shape_35_4(pad_row).shape,
                             pad_shape_35_4(pad_row).params)

is_overlap_35_4_or_touching(distance) == Le0(distance)

\* if distance < 0:
is_overlap_35_4(distance) == Lt0(distance)

\* for _, pad_row in pad_layer_df.iterrows(): ...
RECURSIVE pad_loop_35_4(_, _, _)
pad_loop_35_4(tp_row, pad_layer_df, layer_name) ==
    IF pad_layer_df = <<>> THEN <<>>
    ELSE LET pad_row == Head(pad_layer_df)
             distance == pair_distance_35_4(tp_row, pad_row)
         IN  (IF is_overlap_35_4(distance)
              THEN <<[testpoint_id |-> tp_row.testpoint_id,
                      pad_id |-> pad_row.pad_id,
                      layer |-> layer_name,
                      distance |-> distance]>>
              ELSE <<>>)
             \o pad_loop_35_4(tp_row, Tail(pad_layer_df), layer_name)

\* for _, tp_row in tp_layer_df.iterrows(): ...
RECURSIVE tp_loop_35_4(_, _, _)
tp_loop_35_4(tp_layer_df, pad_layer_df, layer_name) ==
    IF tp_layer_df = <<>> THEN <<>>
    ELSE pad_loop_35_4(Head(tp_layer_df), pad_layer_df, layer_name)
         \o tp_loop_35_4(Tail(tp_layer_df), pad_layer_df, layer_name)

\* the pass returns after its first test point
layer_pass_35_4_first_tp(layer_name, tp_layer_df, pad_layer_df) ==
    IF tp_layer_df = <<>> \/ pad_layer_df = <<>> THEN <<>>
    ELSE pad_loop_35_4(Head(tp_layer_df), pad_layer_df, layer_name)

\* one pass of: for layer_name, tp_layer_df, pad_layer_df in [...]
layer_pass_35_4(layer_name, tp_layer_df, pad_layer_df) ==
    IF tp_layer_df = <<>> \/ pad_layer_df = <<>> THEN <<>>
    ELSE tp_loop_35_4(tp_layer_df, pad_layer_df, layer_name)

\* the BOTTOM pass given the TOP test points
judge_tp_pad_pin_positions_crossed(tp, pad) ==
    IF tp = <<>> \/ pad = <<>> THEN <<>>
    ELSE layer_pass_35_4("TOP", layer_filter(tp, "SOLDERMASK_TOP"),
                         layer_filter(pad, "TOP"))
         \o layer_pass_35_4("BOTTOM", layer_filter(tp, "SOLDERMASK_TOP"),
                            layer_filter(pad, "BOTTOM"))

\* an empty TOP partition ends the loop over the layers
judge_tp_pad_pin_positions_break(tp, pad) ==
    IF tp = <<>> \/ pad = <<>> THEN <<>>
    ELSE IF layer_filter(tp, "SOLDERMASK_TOP") = <<>> \/ layer_filter(pad, "TOP") = <<>>
    THEN <<>>
    ELSE layer_pass_35_4("TOP", layer_filter(tp, "SOLDERMASK_TOP"),
                         layer_filter(pad, "TOP"))
         \o layer_pass_35_4("BOTTOM", layer_filter(tp, "SOLDERMASK_BOTTOM"),
                            layer_filter(pad, "BOTTOM"))

\* the BOTTOM pass runs before the TOP pass
judge_tp_pad_pin_positions_bottom_first(tp, pad) ==
    IF tp = <<>> \/ pad = <<>> THEN <<>>
    ELSE layer_pass_35_4("BOTTOM", layer_filter(tp, "SOLDERMASK_BOTTOM"),
                         layer_filter(pad, "BOTTOM"))
         \o layer_pass_35_4("TOP", layer_filter(tp, "SOLDERMASK_TOP"),
                            layer_filter(pad, "TOP"))

judge_tp_pad_pin_positions(tp, pad) ==
    IF tp = <<>> \/ pad = <<>> THEN <<>>
    ELSE LET tp_top == layer_filter(tp, "SOLDERMASK_TOP")
             tp_bottom == layer_filter(tp, "SOLDERMASK_BOTTOM")
             pad_top == layer_filter(pad, "TOP")
             pad_bottom == layer_filter(pad, "BOTTOM")
         IN  layer_pass_35_4("TOP", tp_top, pad_top)
             \o layer_pass_35_4("BOTTOM", tp_bottom, pad_bottom)

(***************************************************************************)
(* criteria_37_4.py (released): geometry and judge_tp_component_coverage.  *)
(***************************************************************************)
_dist_signed_point_to_rect_37_4(p, rect_min, rect_max) ==
    LET rect_center == <<(rect_min[1] + rect_max[1]) \div 2,
                         (rect_min[2] + rect_max[2]) \div 2>>
        rect_half == <<(rect_max[1] - rect_min[1]) \div 2,
                       (rect_max[2] - rect_min[2]) \div 2>>
        delta == <<Abs(p[1] - rect_center[1]) - rect_half[1],
                   Abs(p[2] - rect_center[2]) - rect_half[2]>>
    IN  IF delta[1] <= 0 /\ delta[2] <= 0
        THEN DInt(Max2(delta[1], delta[2]))
        ELSE DRoot(Sq(Max2(delta[1], 0)) + Sq(Max2(delta[2], 0)), 1)

_calculate_distance_37_4(tp_shape, tp_params, component_shape, component_params) ==
    IF tp_shape = "CIRCLE"
    THEN IF component_shape = "RECT" \/ component_shape = "OTHER"
         THEN DSub(_dist_signed_point_to_rect_37_4(
                       tp_params[1], component_params[1], component_params[2]),
                   tp_params[2])
         ELSE IF component_shape = "LINE"
         THEN DSub(_dist_signed_point_to_rect_37_4(
                       tp_params[1], component_params[1], component_params[2]),
                   tp_params[2])
         ELSE DInf
    ELSE DInf

\* df['layer'].map({...}): a raw layer outside the map becomes NaN
tp_layer_map(raw) ==
    CASE raw = "SOLDERMASK_TOP" -> "TOP"
      [] raw = "SOLDERMASK_BOTTOM" -> "BOTTOM"
      [] OTHER -> "NaN"

component_layer_map(raw) ==
    CASE raw = "PLACE_BOUND_TOP" -> "TOP"
      [] raw = "PLACE_BOUND_BOTTOM" -> "BOTTOM"
      [] OTHER -> "NaN"

\* row with the column standard_layer set to value
with_column(row, value) ==
    [f \in (DOMAIN row) \cup {"standard_layer"} |->
        IF f = "standard_layer" THEN value ELSE row[f]]

\* the column is computed from itself once it is there: the second call maps
\* 'TOP' and 'BOTTOM', which the mapping does not hold
tp_with_standard_layer_in_place(df) ==
    [i \in 1..Len(df) |->
        with_column(df[i],
                    tp_layer_map(IF "standard_layer" \in DOMAIN df[i]
                                 THEN df[i].standard_layer ELSE df[i].layer))]

\* tp_df['standard_layer'] = tp_df['layer'].map({...})
tp_with_standard_layer(df) ==
    [i \in 1..Len(df) |-> with_column(df[i], tp_layer_map(df[i].layer))]

\* component_df['standard_layer'] = component_df['layer'].map({...})
component_with_standard_layer(df) ==
    [i \in 1..Len(df) |-> with_column(df[i], component_layer_map(df[i].layer))]

\* df.dropna(subset=['standard_layer']), then df[df['standard_layer'] == name]
standard_layer_filter(df, name) ==
    SelectSeq(SelectSeq(df, LAMBDA row : row.standard_layer # "NaN"),
              LAMBDA row : row.standard_layer = name)

\* component_shape, component_params from shape_name and the bounding box
component_shape_37_4(component_row) ==
    [shape |-> IF component_row.shape_name = "LINE" THEN "LINE" ELSE "OTHER",
     params |-> <<<<Dbl(component_row.min_x), Dbl(component_row.min_y)>>,
                  <<Dbl(component_row.max_x), Dbl(component_row.max_y)>>>>]

\* the columns that component_params is built from
component_operands == {"min_x", "min_y", "max_x", "max_y"}

\* a NaN operand makes the distance NaN, as in criteria_35_4.py
nan_reaches_37_4(tp_row, component_row) ==
    \/ tp_row.nan \cap tp_operands # {}
    \/ component_row.nan \cap component_operands # {}

pair_distance_37_4(tp_row, component_row) ==
    IF nan_reaches_37_4(tp_row, component_row) THEN DNaN
    ELSE _calculate_distance_37_4(tp_circle(tp_row).shape, tp_circle(tp_row).params,
                                  component_shape_37_4(component_row).shape,
                                  component_shape_37_4(component_row).params)

is_self_37_4_never(tp_row, component_row) == FALSE

\* if tp_row['testpoint_id'] == component_row['component_id']: continue
is_self_37_4(tp_row, component_row) ==
    tp_row.testpoint_id = component_row.component_id

is_overlap_37_4_or_touching(distance) == Le0(distance)

\* if distance < 0:
is_overlap_37_4(distance) == Lt0(distance)

\* for _, component_row in component_layer_df.iterrows(): ...
RECURSIVE component_loop_37_4(_, _, _)
component_loop_37_4(tp_row, component_layer_df, layer_name) ==
    IF component_layer_df = <<>> THEN <<>>
    ELSE LET component_row == Head(component_layer_df)
             distance == pair_distance_37_4(tp_row, component_row)
         IN  (IF ~is_self_37_4(tp_row, component_row) /\ is_overlap_37_4(distance)
              THEN <<[testpoint_id |-> tp_row.testpoint_id,
                      component_id |-> component_row.component_id,
                      layer |-> layer_name,
                      distance |-> distance]>>
              ELSE <<>>)
             \o component_loop_37_4(tp_row, Tail(component_layer_df), layer_name)

\* for _, tp_row in tp_layer_df.iterrows(): ...
RECURSIVE tp_loop_37_4(_, _, _)
tp_loop_37_4(tp_layer_df, component_layer_df, layer_name) ==
    IF tp_layer_df = <<>> THEN <<>>
    ELSE component_loop_37_4(Head(tp_layer_df), component_layer_df, layer_name)
         \o tp_loop_37_4(Tail(tp_layer_df), component_layer_df, layer_name)

layer_pass_37_4(layer_name, tp_layer_df, component_layer_df) ==
    IF tp_layer_df = <<>> \/ component_layer_df = <<>> THEN <<>>
    ELSE tp_loop_37_4(tp_layer_df, component_layer_df, layer_name)

\* the records returned, given the two tables with their standard_layer column
judge_tp_component_coverage(tp, component) ==
    LET tp_top == standard_layer_filter(tp, "TOP")
        tp_bottom == standard_layer_filter(tp, "BOTTOM")
        component_top == standard_layer_filter(component, "TOP")
        component_bottom == standard_layer_filter(component, "BOTTOM")
    IN  layer_pass_37_4("TOP", tp_top, component_top)
        \o layer_pass_37_4("BOTTOM", tp_bottom, component_bottom)

(***************************************************************************)
(* legacy_files/criteria_35_4.py: shapely shapes, R-tree broad phase.      *)
(*                                                                         *)
(* Point(x, y).buffer(r) is the 64-gon inscribed in the circle of radius r *)
(* whose vertices include the four axis points of the circle.  For the     *)
(* integer inputs of the model (r*r < 400 in doubled units) that polygon   *)
(* meets a rectangle exactly when the circle reaches into it, or touches   *)
(* it at one of the four axis points.                                      *)
(***************************************************************************)
\* row.get(column, 'RECT')
row_get(row, column) == IF column \in DOMAIN row THEN row[column] ELSE "RECT"

rect_polygon(row) ==
    [kind |-> "POLYGON",
     minx |-> Dbl(row.x) - row.width, miny |-> Dbl(row.y) - row.height,
     maxx |-> Dbl(row.x) + row.width, maxy |-> Dbl(row.y) + row.height]

point_buffer(row) ==
    [kind |-> "BUFFER", cx |-> Dbl(row.x), cy |-> Dbl(row.y), r |-> row.width]

_create_tp_shape(row) ==
    LET shape_type == row_get(row, "shape_type")
    IN  IF shape_type = "CIRCLE" THEN point_buffer(row)
        ELSE IF shape_type = "LINE"
        THEN [kind |-> "LINESTRING",
              ax |-> Dbl(row.x), ay |-> Dbl(row.y),
              bx |-> Dbl(row.width), by |-> Dbl(row.height)]
        ELSE rect_polygon(row)

_create_pad_shape(row) ==
    LET shape_type == row_get(row, "PAD_STACK_NAME")
    IN  IF shape_type = "CIRCLE" THEN point_buffer(row) ELSE rect_polygon(row)

\* shape.bounds: <<minx, miny, maxx, maxy>>
shape_bounds(shape) ==
    CASE shape.kind = "POLYGON" -> <<shape.minx, shape.miny, shape.maxx, shape.maxy>>
      [] shape.kind = "BUFFER" ->
            <<shape.cx - shape.r, shape.cy - shape.r,
              shape.cx + shape.r, shape.cy + shape.r>>
      [] OTHER ->
            <<Min2(shape.ax, shape.bx), Min2(shape.ay, shape.by),
              Max2(shape.ax, shape.bx), Max2(shape.ay, shape.by)>>

\* boxes that merely touch are not reported
boxes_intersect_strict(a, b) ==
    a[1] < b[3] /\ b[1] < a[3] /\ a[2] < b[4] /\ b[2] < a[4]

\* the R-tree's test of two boxes: closed boxes that share a point
boxes_intersect(a, b) ==
    a[1] <= b[3] /\ b[1] <= a[3] /\ a[2] <= b[4] /\ b[2] <= a[4]

\* per-axis offsets from the centre of a buffer to the nearest point of a polygon
buffer_offsets(poly, buf) ==
    <<Max2(Max2(poly.minx - buf.cx, buf.cx - poly.maxx), 0),
      Max2(Max2(poly.miny - buf.cy, buf.cy - poly.maxy), 0)>>

\* two axis-aligned rectangles, boundaries included
polygon_meets_polygon(a, b) ==
    a.minx <= b.maxx /\ b.minx <= a.maxx /\ a.miny <= b.maxy /\ b.miny <= a.maxy

polygon_meets_buffer(poly, buf) ==
    LET off == buffer_offsets(poly, buf)
        n == Sq(off[1]) + Sq(off[2])
    IN  n < Sq(buf.r) \/ (n = Sq(buf.r) /\ (off[1] = 0 \/ off[2] = 0))

\* a.intersects(b); a LineString or buffer subject needs a shape_type column,
\* which get_test_point_list does not supply
shapely_intersects(a, b) ==
    CASE a.kind = "POLYGON" /\ b.kind = "POLYGON" -> polygon_meets_polygon(a, b)
      [] a.kind = "POLYGON" /\ b.kind = "BUFFER" -> polygon_meets_buffer(a, b)
      [] a.kind = "BUFFER" /\ b.kind = "POLYGON" -> polygon_meets_buffer(b, a)
      [] OTHER -> FALSE

\* pad_shapes = [(_create_pad_shape(row), row['component_id']) for ...]
pad_shapes_of(pad) ==
    [i \in 1..Len(pad) |-> <<_create_pad_shape(pad[i]), pad[i].component_id>>]

\* list(idx.intersection(tp_shape.bounds)) over idx.insert(i, shape.bounds)
candidate_indices(tp_row, pad) ==
    {i \in 1..Len(pad) :
        boxes_intersect(shape_bounds(pad_shapes_of(pad)[i][1]),
                        shape_bounds(_create_tp_shape(tp_row)))}

\* for i in candidate_indices: ...   (candidates taken in index order)
RECURSIVE candidate_loop(_, _, _, _)
candidate_loop(tp_row, pad, candidates, i) ==
    IF i > Len(pad) THEN <<>>
    ELSE (IF i \in candidates
             /\ shapely_intersects(_create_tp_shape(tp_row), pad_shapes_of(pad)[i][1])
          THEN <<[testpoint_id |-> tp_row.testpoint_id,
                  pad_id |-> pad_shapes_of(pad)[i][2],
                  distance |-> DInt(-2)]>>
          ELSE <<>>)
         \o candidate_loop(tp_row, pad, candidates, i + 1)

RECURSIVE tp_loop_legacy(_, _)
tp_loop_legacy(tp, pad) ==
    IF tp = <<>> THEN <<>>
    ELSE candidate_loop(Head(tp), pad, candidate_indices(Head(tp), pad), 1)
         \o tp_loop_legacy(Tail(tp), pad)

judge_tp_pad_pin_positions_legacy(tp, pad) ==
    IF tp = <<>> \/ pad = <<>> THEN <<>> ELSE tp_loop_legacy(tp, pad)

(***************************************************************************)
(* The input tables.  One workbook is gathered for one criteria directory: *)
(* criteria_35 (test points and pads) or criteria_37 (test points and      *)
(* component bounding boxes).  A pair of one-row tables sweeps the         *)
(* geometry; longer and empty tables sweep ids and layers, every row at    *)
(* one place so that every same-layer pair overlaps.  The column nan of a   *)
(* row is the set of its numeric columns whose cell is missing (NaN).      *)
(***************************************************************************)
Coords == 0..MaxCoord
Widths == 1..MaxWidth
TpIds == {"TP1", "TP2"}
ObjIds == {"TP1", "U1"}
TpLayers == {"SOLDERMASK_TOP", "SOLDERMASK_BOTTOM", "PASTEMASK_TOP"}
PadLayers == {"TOP", "BOTTOM", "INNER"}
ComponentLayers == {"PLACE_BOUND_TOP", "PLACE_BOUND_BOTTOM", "ASSEMBLY_TOP"}
PadShapeNames == {"CIRCLE", "FIG_SHAPE SHAPE1_5X2_4", "RECTANGLE"}
PadStackNames == {"CIRCLE", "PAD40CIR25D"}
ComponentShapeNames == {"LINE", "RECTANGLE"}

\* rows of get_test_point_list; a test point is round, width = height
TpRows ==
    {row \in [testpoint_id : TpIds, shape_name : {"CIRCLE"}, x : Coords, y : Coords,
              width : Widths, height : Widths, layer : TpLayers, nan : {{}}] :
        row.height = row.width}

\* ids are only compared with one another: in the pair of one-row tables the
\* test point keeps one id and the id of the object varies
TpRowsSweep == {row \in TpRows : row.testpoint_id = "TP1"}

TpRowsFixed ==
    [testpoint_id : TpIds, shape_name : {"CIRCLE"}, x : {0}, y : {0},
     width : {1}, height : {1}, layer : TpLayers, nan : {{}}]

\* rows of get_component_pads_info; one pad per component, pad_id = component_id
PadRows ==
    {row \in [pad_id : ObjIds, component_id : ObjIds, PAD_STACK_NAME : PadStackNames,
              PAD_SHAPE_NAME : PadShapeNames, x : Coords, y : Coords,
              width : Widths, height : Widths, layer : PadLayers, nan : {{}}] :
        row.component_id = row.pad_id}

PadRowsFixed ==
    {row \in [pad_id : ObjIds, component_id : ObjIds, PAD_STACK_NAME : {"PAD40CIR25D"},
              PAD_SHAPE_NAME : {"RECTANGLE"}, x : {0}, y : {0},
              width : {1}, height : {1}, layer : PadLayers, nan : {{}}] :
        row.component_id = row.pad_id}

\* rows of get_component_list: min <= max on both axes
ComponentRows ==
    {row \in [component_id : ObjIds, shape_name : ComponentShapeNames,
              min_x : Coords, min_y : Coords, max_x : Coords, max_y : Coords,
              layer : ComponentLayers, nan : {{}}] :
        row.min_x <= row.max_x /\ row.min_y <= row.max_y}

ComponentRowsFixed ==
    [component_id : ObjIds, shape_name : {"RECTANGLE"},
     min_x : {0}, min_y : {0}, max_x : {1}, max_y : {1}, layer : ComponentLayers,
     nan : {{}}]

\* the pairs of tables with n rows in all, k of them test points
TablePairs(n, k, tp_rows, tp_fixed, obj_rows, obj_fixed) ==
    IF n = 2 /\ k = 1
    THEN [1..1 -> tp_rows] \X [1..1 -> obj_rows]
    ELSE [1..k -> tp_fixed] \X [1..(n - k) -> obj_fixed]

NotRun == "not run"

\* a part of the state that a specification does not use
idle(part) ==
    CASE part = "geometry" -> call = NotRun /\ returned = NotRun
      [] part = "rerun" -> runs = 0 /\ previous = NotRun
      [] part = "sheet" -> sym_name_df = <<>>
      [] part = "splitter" -> /\ file = <<>>
                              /\ line_num = 0
                              /\ tables = <<>>
                              /\ current_table = <<>>
                              /\ current_table_lines = <<>>

Init ==
    /\ \E n \in 0..MaxRows : \E k \in 0..n :
          \/ /\ criteria = "criteria_35"
             /\ \E pair \in TablePairs(n, k, TpRowsSweep, TpRowsFixed,
                                        PadRows, PadRowsFixed) :
                    tp_df = pair[1] /\ pad_df = pair[2]
             /\ component_df = <<>>
          \/ /\ criteria = "criteria_37"
             /\ \E pair \in TablePairs(n, k, TpRowsSweep, TpRowsFixed,
                                        ComponentRows, ComponentRowsFixed) :
                    tp_df = pair[1] /\ component_df = pair[2]
             /\ pad_df = <<>>
    /\ results_35_4 = NotRun
    /\ results_37_4 = NotRun
    /\ results_legacy = NotRun
    /\ legacy_candidates = NotRun
    /\ ran = {}
    /\ connector_df = <<>>
    /\ results_32_3 = NotRun
    /\ results_29_3 = NotRun
    /\ todo = {}
    /\ partial = <<>>
    /\ idle("geometry") /\ idle("rerun") /\ idle("sheet") /\ idle("splitter")

\* python criteria_35_4.py (released)
run_criteria_35_4 ==
    /\ criteria = "criteria_35"
    /\ "criteria_35_4" \notin ran
    /\ ran' = ran \cup {"criteria_35_4"}
    /\ results_35_4' = judge_tp_pad_pin_positions(tp_df, pad_df)
    /\ UNCHANGED <<criteria, tp_df, pad_df, component_df, results_37_4,
                   results_legacy, legacy_candidates>>
    /\ UNCHANGED <<net_join_vars, pass_vars>>
    /\ UNCHANGED <<geometry_vars, rerun_vars, sheet_vars, splitter_vars>>

\* python criteria_37_4.py (released); the two tables get a standard_layer column
run_criteria_37_4 ==
    /\ criteria = "criteria_37"
    /\ "criteria_37_4" \notin ran
    /\ ran' = ran \cup {"criteria_37_4"}
    /\ IF tp_df = <<>> \/ component_df = <<>>
       THEN /\ results_37_4' = <<>>
            /\ UNCHANGED <<tp_df, component_df>>
       ELSE /\ tp_df' = tp_with_standard_layer(tp_df)
            /\ component_df' = component_with_standard_layer(component_df)
            /\ results_37_4' = judge_tp_component_coverage(tp_df', component_df')
    /\ UNCHANGED <<criteria, pad_df, results_35_4, results_legacy, legacy_candidates>>
    /\ UNCHANGED <<net_join_vars, pass_vars>>
    /\ UNCHANGED <<geometry_vars, rerun_vars, sheet_vars, splitter_vars>>

\* python criteria_35_4.py (legacy_files)
run_legacy_criteria_35_4 ==
    /\ criteria = "criteria_35"
    /\ "legacy_criteria_35_4" \notin ran
    /\ ran' = ran \cup {"legacy_criteria_35_4"}
    /\ results_legacy' = judge_tp_pad_pin_positions_legacy(tp_df, pad_df)
    /\ legacy_candidates' =
           IF tp_df = <<>> \/ pad_df = <<>> THEN <<>>
           ELSE [t \in 1..Len(tp_df) |-> candidate_indices(tp_df[t], pad_df)]
    /\ UNCHANGED <<criteria, tp_df, pad_df, component_df, results_35_4, results_37_4>>
    /\ UNCHANGED <<net_join_vars, pass_vars>>
    /\ UNCHANGED <<geometry_vars, rerun_vars, sheet_vars, splitter_vars>>

Next == run_criteria_35_4 \/ run_criteria_37_4 \/ run_legacy_criteria_35_4

Spec == Init /\ [][Next]_vars

(***************************************************************************)
(* Workbooks with blank numeric cells, read by the released scripts.       *)
(* pandas reads a blank cell as NaN; the row keeps its place in the table. *)
(***************************************************************************)
MaxRowsBlank == 3

\* row with the cells of the columns cols blank; a blank cell is written 0 in
\* the row and named in its column nan
blank_cells(row, cols) ==
    [f \in DOMAIN row |-> IF f = "nan" THEN cols ELSE IF f \in cols THEN 0 ELSE row[f]]

TpBlanks == {{}, {"x"}, {"width"}, {"height"}}
PadBlanks == {{}, {"y"}, {"width"}, {"height"}}
ComponentBlanks == {{}, {"min_x"}, {"max_y"}}

TpRowsBlank ==
    {blank_cells(row, cols) : row \in {r \in TpRowsFixed : r.layer = "SOLDERMASK_TOP"},
                              cols \in TpBlanks}

PadRowsBlank ==
    {blank_cells(row, cols) :
        row \in {r \in PadRows : /\ r.layer = "TOP" /\ r.x = 0 /\ r.y = 0
                                 /\ r.width = 1 /\ r.height = 1
                                 /\ r.PAD_STACK_NAME = "PAD40CIR25D"},
        cols \in PadBlanks}

ComponentRowsBlank ==
    {blank_cells(row, cols) :
        row \in {r \in ComponentRows : /\ r.layer = "PLACE_BOUND_TOP"
                                       /\ r.min_x = 0 /\ r.min_y = 0
                                       /\ r.max_x = 1 /\ r.max_y = 1},
        cols \in ComponentBlanks}

InitBlank ==
    /\ \E n \in 2..MaxRowsBlank : \E k \in 1..(n - 1) :
          \/ /\ criteria = "criteria_35"
             /\ tp_df \in [1..k -> TpRowsBlank]
             /\ pad_df \in [1..(n - k) -> PadRowsBlank]
             /\ component_df = <<>>
          \/ /\ criteria = "criteria_37"
             /\ tp_df \in [1..k -> TpRowsBlank]
             /\ component_df \in [1..(n - k) -> ComponentRowsBlank]
             /\ pad_df = <<>>
    /\ results_35_4 = NotRun
    /\ results_37_4 = NotRun
    /\ results_legacy = NotRun
    /\ legacy_candidates = NotRun
    /\ ran = {}
    /\ connector_df = <<>>
    /\ results_32_3 = NotRun
    /\ results_29_3 = NotRun
    /\ todo = {}
    /\ partial = <<>>
    /\ idle("geometry") /\ idle("rerun") /\ idle("sheet") /\ idle("splitter")

NextBlank == run_criteria_35_4 \/ run_criteria_37_4

SpecBlank == InitBlank /\ [][NextBlank]_vars

(***************************************************************************)
(* Net joins: judge_io_connector_in_tp_network of criteria_32_3.py (test   *)
(* points against connectors) and of crit_29_3.py (test points against     *)
(* connector pins).                                                        *)
(***************************************************************************)
MaxJoinRows == 4

\* a blank net_name cell; a pin_id that get_connector_pin_list left pd.NA;
\* the label crit_29_3.py gives to a pair with a missing id
NaN == "NaN"
NA == "<NA>"
None == "None"

\* ord() of the characters of the strings in the tables: Python orders str by
\* code point
code_points(s) ==
    CASE s = "3V3" -> <<51, 86, 51>>
      [] s = "+5V" -> <<43, 53, 86>>
      [] s = "GND" -> <<71, 78, 68>>
      [] s = "TP1" -> <<84, 80, 49>>
      [] s = "TP2" -> <<84, 80, 50>>
      [] s = "XP1_1" -> <<88, 80, 49, 95, 49>>
      [] s = "XP1_2" -> <<88, 80, 49, 95, 50>>

RECURSIVE code_points_less(_, _)
code_points_less(a, b) ==
    IF b = <<>> THEN FALSE
    ELSE IF a = <<>> THEN TRUE
    ELSE IF a[1] # b[1] THEN a[1] < b[1]
    ELSE code_points_less(Tail(a), Tail(b))

\* a < b on str
str_less(a, b) == code_points_less(code_points(a), code_points(b))

\* re.match(r'^\d', net_name)
starts_with_digit(net_name) ==
    /\ code_points(net_name) # <<>>
    /\ code_points(net_name)[1] \in 48..57

\* every net name gets the key of a name that begins with a letter
sort_key_plain(net_name) == <<1, net_name>>

\* def sort_key(net_name) of criteria_32_3.py, def _sort_key(net) of crit_29_3.py
sort_key(net_name) ==
    IF starts_with_digit(net_name) THEN <<0, net_name>> ELSE <<1, net_name>>

\* a < b on the tuples (int, str)
sort_key_less(a, b) == a[1] < b[1] \/ (a[1] = b[1] /\ str_less(a[2], b[2]))

\* ascending order within a column of ids; sort_values puts missing values last
column_less(a, b) ==
    IF a = NA THEN FALSE ELSE IF b = NA THEN TRUE ELSE str_less(a, b)

\* the order of sort_values(by=[sort_key, 'net_name', 'testpoint_id', right])
row_less(a, b, right) ==
    IF sort_key(a.net_name) # sort_key(b.net_name)
    THEN sort_key_less(sort_key(a.net_name), sort_key(b.net_name))
    ELSE IF a.net_name # b.net_name THEN str_less(a.net_name, b.net_name)
    ELSE IF a.testpoint_id # b.testpoint_id
    THEN column_less(a.testpoint_id, b.testpoint_id)
    ELSE column_less(a[right], b[right])

RECURSIVE insert_row(_, _, _)
insert_row(row, sorted, right) ==
    IF sorted = <<>> THEN <<row>>
    ELSE IF row_less(row, Head(sorted), right) THEN <<row>> \o sorted
    ELSE <<Head(sorted)>> \o insert_row(row, Tail(sorted), right)

\* df.sort_values(by=[...], inplace=True); df.reset_index(drop=True, inplace=True)
RECURSIVE sort_values(_, _)
sort_values(df, right) ==
    IF df = <<>> THEN <<>>
    ELSE insert_row(Head(df), sort_values(Tail(df), right), right)

\* the rows of df without the rows equal to an earlier row
RECURSIVE first_occurrences(_)
first_occurrences(df) ==
    IF df = <<>> THEN <<>>
    ELSE LET kept == first_occurrences(SubSeq(df, 1, Len(df) - 1))
             last == df[Len(df)]
         IN  IF \E i \in DOMAIN kept : kept[i] = last THEN kept
             ELSE Append(kept, last)

\* every row is kept
drop_duplicates_keep_all(df) == df

\* df.drop_duplicates(inplace=True): the first of equal rows stays
drop_duplicates(df) == first_occurrences(df)

\* NaN is equal to NaN
net_rows_nan_equal(df, net_name) ==
    SelectSeq(df, LAMBDA row : row.net_name = net_name)

\* df[df['net_name'] == net_name]: NaN is equal to nothing
net_rows(df, net_name) ==
    SelectSeq(df, LAMBDA row : row.net_name # NaN /\ net_name # NaN
                               /\ row.net_name = net_name)

\* the sequences that list the set once: the order in which a Python set is
\* iterated
orderings(set) ==
    {order \in [1..Cardinality(set) -> set] :
        \A i, j \in 1..Cardinality(set) : order[i] = order[j] => i = j}

\* criteria_32_3.py: set(dropna().unique()) & set(dropna().unique())
common_net_names(tp_data, connector_data) ==
    ({tp_data[i].net_name : i \in DOMAIN tp_data} \ {NaN})
    \cap ({connector_data[i].net_name : i \in DOMAIN connector_data} \ {NaN})

\* matching_pair = f"{tp_id} - {comp_id}"
matching_pair_32_3(tp_id, comp_id) == tp_id \o " - " \o comp_id

\* for tp_id, comp_id in product(tp_ids, component_ids): result_rows.append(...)
product_rows_32_3(tp_data, connector_data, net_name) ==
    LET tp_ids == net_rows(tp_data, net_name)
        component_ids == net_rows(connector_data, net_name)
        n == Len(component_ids)
    IN  [i \in 1..(Len(tp_ids) * n) |->
            LET tp_id == tp_ids[((i - 1) \div n) + 1].testpoint_id
                comp_id == component_ids[((i - 1) % n) + 1].connector_id
            IN  [testpoint_id |-> tp_id, component_id |-> comp_id,
                 net_name |-> net_name,
                 matching_pairs |-> matching_pair_32_3(tp_id, comp_id)]]

\* for net_name in common_net_names: ...
RECURSIVE result_rows_32_3(_, _, _)
result_rows_32_3(tp_data, connector_data, net_order) ==
    IF net_order = <<>> THEN <<>>
    ELSE product_rows_32_3(tp_data, connector_data, Head(net_order))
         \o result_rows_32_3(tp_data, connector_data, Tail(net_order))

\* criteria_32_3.py; net_order is the order in which the set was iterated
judge_io_connector_in_tp_network(tp, connector, net_order) ==
    IF tp = <<>> \/ connector = <<>> THEN <<>>
    ELSE sort_values(drop_duplicates(result_rows_32_3(tp, connector, net_order)),
                     "component_id")

\* crit_29_3.py: set(df_tp['net_name']).union(set(df_pin['net_name']))
all_net_names(df_tp, df_pin) ==
    {df_tp[i].net_name : i \in DOMAIN df_tp}
    \cup {df_pin[i].net_name : i \in DOMAIN df_pin}

\* f"{testpoint_id} - {pin_id}" if pd.notna(testpoint_id) and pd.notna(pin_id)
\* else None
matching_pair_29_3(testpoint_id, pin_id) ==
    IF testpoint_id # NA /\ pin_id # NA
    THEN testpoint_id \o " - " \o pin_id
    ELSE None

\* for _, tp_row in tp_records.iterrows(): for _, pin_row in pin_records.iterrows()
product_rows_29_3(df_tp, df_pin, net_name) ==
    LET tp_records == net_rows(df_tp, net_name)
        pin_records == net_rows(df_pin, net_name)
        n == Len(pin_records)
    IN  [i \in 1..(Len(tp_records) * n) |->
            LET testpoint_id == tp_records[((i - 1) \div n) + 1].testpoint_id
                pin_id == pin_records[((i - 1) % n) + 1].pin_id
            IN  [testpoint_id |-> testpoint_id, pin_id |-> pin_id,
                 net_name |-> net_name,
                 matching_pairs |-> matching_pair_29_3(testpoint_id, pin_id)]]

\* for net_name in all_net_names: ...
RECURSIVE result_list_29_3(_, _, _)
result_list_29_3(df_tp, df_pin, net_order) ==
    IF net_order = <<>> THEN <<>>
    ELSE product_rows_29_3(df_tp, df_pin, Head(net_order))
         \o result_list_29_3(df_tp, df_pin, Tail(net_order))

\* crit_29_3.py
judge_io_connector_in_tp_network_29_3(df_tp, df_pin, net_order) ==
    IF df_tp = <<>> \/ df_pin = <<>> THEN <<>>
    ELSE sort_values(drop_duplicates(result_list_29_3(df_tp, df_pin, net_order)),
                     "pin_id")

\* the tables of the net joins
TpNetNames == {"3V3", "+5V", "GND", NaN}
ConnectorNetNames == {"3V3", "+5V", NaN}
ConnectorIds == {"XP1_1", "XP1_2"}
PinIds == {"XP1_1", "XP1_2", NA}

TpNetRows == [testpoint_id : TpIds, net_name : TpNetNames]
ConnectorRows == [connector_id : ConnectorIds, net_name : ConnectorNetNames]
\* rows of get_connector_pin_list: a row of the connector that is no pin on TOP
\* or BOTTOM has pin_id pd.NA
PinRows == [connector_id : {"XP1"}, pin_id : PinIds, net_name : ConnectorNetNames]

InitJoin ==
    /\ \E n \in 0..MaxJoinRows : \E k \in 0..n :
          /\ tp_df \in [1..k -> TpNetRows]
          /\ \/ /\ criteria = "criteria_32"
                /\ connector_df \in [1..(n - k) -> ConnectorRows]
             \/ /\ criteria = "criteria_29"
                /\ connector_df \in [1..(n - k) -> PinRows]
    /\ pad_df = <<>>
    /\ component_df = <<>>
    /\ results_35_4 = NotRun
    /\ results_37_4 = NotRun
    /\ results_legacy = NotRun
    /\ legacy_candidates = NotRun
    /\ ran = {}
    /\ results_32_3 = NotRun
    /\ results_29_3 = NotRun
    /\ todo = {}
    /\ partial = <<>>
    /\ idle("geometry") /\ idle("rerun") /\ idle("sheet") /\ idle("splitter")

\* python criteria_32_3.py
run_criteria_32_3 ==
    /\ criteria = "criteria_32"
    /\ "criteria_32_3" \notin ran
    /\ ran' = ran \cup {"criteria_32_3"}
    /\ \E net_order \in orderings(common_net_names(tp_df, connector_df)) :
          results_32_3' = judge_io_connector_in_tp_network(tp_df, connector_df,
                                                           net_order)
    /\ UNCHANGED <<criteria, tp_df, connector_df, results_29_3>>
    /\ UNCHANGED <<matcher_vars, pass_vars>>
    /\ UNCHANGED <<geometry_vars, rerun_vars, sheet_vars, splitter_vars>>

\* python crit_29_3.py
run_crit_29_3 ==
    /\ criteria = "criteria_29"
    /\ "crit_29_3" \notin ran
    /\ ran' = ran \cup {"crit_29_3"}
    /\ \E net_order \in orderings(all_net_names(tp_df, connector_df)) :
          results_29_3' = judge_io_connector_in_tp_network_29_3(tp_df, connector_df,
                                                                net_order)
    /\ UNCHANGED <<criteria, tp_df, connector_df, results_32_3>>
    /\ UNCHANGED <<matcher_vars, pass_vars>>
    /\ UNCHANGED <<geometry_vars, rerun_vars, sheet_vars, splitter_vars>>

NextJoin == run_criteria_32_3 \/ run_crit_29_3

SpecJoin == InitJoin /\ [][NextJoin]_vars

(***************************************************************************)
(* The released matchers with their passes scheduled one by one.  A pass   *)
(* is the body of the loop over the test points of one layer: it reads the *)
(* test point and the object partition of its layer and extends the list   *)
(* results.  The scripts run the passes of TOP in table order, then those  *)
(* of BOTTOM; here a scheduler picks any pass that is still to run.        *)
(***************************************************************************)
MaxPassRows == 4

\* the partitions the loop over the layers is given
tp_layer_35_4(tp, layer_name) ==
    layer_filter(tp, IF layer_name = "TOP" THEN "SOLDERMASK_TOP"
                     ELSE "SOLDERMASK_BOTTOM")
pad_layer_35_4(pad, layer_name) == layer_filter(pad, layer_name)

\* the passes of criteria_35_4.py: (layer, position of the test point in the
\* partition of the layer); a layer with an empty partition has none
subject_passes_35_4(tp, pad) ==
    {task \in {"TOP", "BOTTOM"} \X (1..Len(tp)) :
        /\ pad_layer_35_4(pad, task[1]) # <<>>
        /\ task[2] <= Len(tp_layer_35_4(tp, task[1]))}

\* the passes of criteria_37_4.py, on the tables with their standard_layer
subject_passes_37_4(tp, component) ==
    {task \in {"TOP", "BOTTOM"} \X (1..Len(tp)) :
        /\ standard_layer_filter(component, task[1]) # <<>>
        /\ task[2] <= Len(standard_layer_filter(tp, task[1]))}

\* the records one pass appends
subject_records_35_4(tp, pad, task) ==
    pad_loop_35_4(tp_layer_35_4(tp, task[1])[task[2]],
                  pad_layer_35_4(pad, task[1]), task[1])
subject_records_37_4(tp, component, task) ==
    component_loop_37_4(standard_layer_filter(tp, task[1])[task[2]],
                        standard_layer_filter(component, task[1]), task[1])

\* a pass puts its records in place of the list
results_overwrite(results, records) == records

\* results.append(...) for each record of the pass
results_extend(results, records) == results \o records

InitPasses ==
    /\ \E n \in 0..MaxPassRows : \E k \in 0..n :
          /\ tp_df \in [1..k -> TpRowsFixed]
          /\ \/ /\ criteria = "criteria_35"
                /\ pad_df \in [1..(n - k) -> PadRowsFixed]
                /\ component_df = <<>>
             \/ /\ criteria = "criteria_37"
                /\ component_df \in [1..(n - k) -> ComponentRowsFixed]
                /\ pad_df = <<>>
    /\ results_35_4 = NotRun
    /\ results_37_4 = NotRun
    /\ results_legacy = NotRun
    /\ legacy_candidates = NotRun
    /\ ran = {}
    /\ connector_df = <<>>
    /\ results_32_3 = NotRun
    /\ results_29_3 = NotRun
    /\ todo = {}
    /\ partial = <<>>
    /\ idle("geometry") /\ idle("rerun") /\ idle("sheet") /\ idle("splitter")

\* the matcher is entered: the tables are checked and partitioned, results = []
start_passes ==
    /\ "passes" \notin ran
    /\ ran' = ran \cup {"passes"}
    /\ partial' = <<>>
    /\ IF criteria = "criteria_35"
       THEN /\ todo' = IF tp_df = <<>> \/ pad_df = <<>> THEN {}
                       ELSE subject_passes_35_4(tp_df, pad_df)
            /\ UNCHANGED <<tp_df, component_df>>
       ELSE IF tp_df = <<>> \/ component_df = <<>>
       THEN /\ todo' = {}
            /\ UNCHANGED <<tp_df, component_df>>
       ELSE /\ tp_df' = tp_with_standard_layer(tp_df)
            /\ component_df' = component_with_standard_layer(component_df)
            /\ todo' = subject_passes_37_4(tp_df', component_df')
    /\ UNCHANGED <<criteria, pad_df, results_35_4, results_37_4, results_legacy,
                   legacy_candidates, net_join_vars>>
    /\ UNCHANGED <<geometry_vars, rerun_vars, sheet_vars, splitter_vars>>

\* one pass runs, in any order
run_subject_pass ==
    /\ \E task \in todo :
          /\ todo' = todo \ {task}
          /\ partial' =
                results_extend(partial,
                               IF criteria = "criteria_35"
                               THEN subject_records_35_4(tp_df, pad_df, task)
                               ELSE subject_records_37_4(tp_df, component_df, task))
    /\ UNCHANGED <<criteria, tp_df, ran, matcher_vars, net_join_vars>>
    /\ UNCHANGED <<geometry_vars, rerun_vars, sheet_vars, splitter_vars>>

\* every pass has run: the matcher returns the list
return_results ==
    /\ "passes" \in ran
    /\ todo = {}
    /\ ran \cap {"criteria_35_4", "criteria_37_4"} = {}
    /\ IF criteria = "criteria_35"
       THEN /\ results_35_4' = partial
            /\ ran' = ran \cup {"criteria_35_4"}
            /\ UNCHANGED results_37_4
       ELSE /\ results_37_4' = partial
            /\ ran' = ran \cup {"criteria_37_4"}
            /\ UNCHANGED results_35_4
    /\ UNCHANGED <<criteria, tp_df, pad_df, component_df, results_legacy,
                   legacy_candidates, net_join_vars, pass_vars>>
    /\ UNCHANGED <<geometry_vars, rerun_vars, sheet_vars, splitter_vars>>

NextPasses == start_passes \/ run_subject_pass \/ return_results

SpecPasses == InitPasses /\ [][NextPasses]_vars

(***************************************************************************)
(* A matcher called again.  judge_tp_pad_pin_positions and                 *)
(* judge_tp_component_coverage are called up to MaxRuns times on the same  *)
(* tables; each call computes its list afresh, and a call of                *)
(* judge_tp_component_coverage leaves the column standard_layer in the two *)
(* tables it was given.                                                    *)
(***************************************************************************)
MaxRuns == 2

\* judge_tp_pad_pin_positions() once more
call_judge_tp_pad_pin_positions ==
    /\ criteria = "criteria_35"
    /\ runs < MaxRuns
    /\ runs' = runs + 1
    /\ previous' = results_35_4
    /\ ran' = ran \cup {"criteria_35_4"}
    /\ results_35_4' = judge_tp_pad_pin_positions(tp_df, pad_df)
    /\ UNCHANGED <<criteria, tp_df, pad_df, component_df, results_37_4,
                   results_legacy, legacy_candidates>>
    /\ UNCHANGED <<net_join_vars, pass_vars, geometry_vars, sheet_vars, splitter_vars>>

\* judge_tp_component_coverage() once more
call_judge_tp_component_coverage ==
    /\ criteria = "criteria_37"
    /\ runs < MaxRuns
    /\ runs' = runs + 1
    /\ previous' = results_37_4
    /\ ran' = ran \cup {"criteria_37_4"}
    /\ IF tp_df = <<>> \/ component_df = <<>>
       THEN /\ results_37_4' = <<>>
            /\ UNCHANGED <<tp_df, component_df>>
       ELSE /\ tp_df' = tp_with_standard_layer(tp_df)
            /\ component_df' = component_with_standard_layer(component_df)
            /\ results_37_4' = judge_tp_component_coverage(tp_df', component_df')
    /\ UNCHANGED <<criteria, pad_df, results_35_4, results_legacy, legacy_candidates>>
    /\ UNCHANGED <<net_join_vars, pass_vars, geometry_vars, sheet_vars, splitter_vars>>

NextRerun == call_judge_tp_pad_pin_positions \/ call_judge_tp_component_coverage

SpecRerun == InitPasses /\ [][NextRerun]_vars

(***************************************************************************)
(* The geometry functions called on their own.  A call holds the function  *)
(* and its arguments, in doubled units: a point with whole and half        *)
(* coordinates, a width or height as an even number, a radius as a whole   *)
(* number.  The sweep takes every point of a small grid; the two worked    *)
(* circle and rectangle cases of the documentation are calls of their own. *)
(***************************************************************************)
MaxGeoCoord == 2
MaxGeoSize == 2

GeoPoints == ((0 - MaxGeoCoord)..MaxGeoCoord) \X ((0 - MaxGeoCoord)..MaxGeoCoord)
\* the centre of the second shape stays in one cell of the grid
GeoCentres == (0..1) \X (0..1)
GeoRadii == 0..MaxGeoSize
GeoWidths == {Dbl(w) : w \in 0..MaxGeoSize}

GeoCircles == GeoPoints \X GeoRadii
GeoRectsNear == GeoCentres \X GeoWidths \X GeoWidths

\* circle (0,0) r=5; rectangles centre (10,0) and (3,0), half extents 2, 2
ExampleCircle == <<<<0, 0>>, Dbl(5)>>
ExampleRectFar == <<<<Dbl(10), 0>>, Dbl(4), Dbl(4)>>
ExampleRectNear == <<<<Dbl(3), 0>>, Dbl(4), Dbl(4)>>

\* (rect_min, rect_max) of a rectangle given as (centre, width, height)
rect_corners(rect) ==
    <<<<rect[1][1] - rect[2] \div 2, rect[1][2] - rect[3] \div 2>>,
      <<rect[1][1] + rect[2] \div 2, rect[1][2] + rect[3] \div 2>>>>

\* one call: a pair of shapes for _calculate_distance, or a point and a
\* rectangle, or a point and a segment
InitGeometry ==
    /\ \/ \E c \in GeoCircles, r \in GeoRectsNear :
             \/ call = [function |-> "_calculate_distance",
                        args |-> <<"CIRCLE", c, "RECT", r>>]
             \/ call = [function |-> "_calculate_distance",
                        args |-> <<"RECT", r, "CIRCLE", c>>]
             \/ \E shape \in {"OTHER", "LINE"} :
                   call = [function |-> "_calculate_distance_37_4",
                           args |-> <<"CIRCLE", c, shape, rect_corners(r)>>]
       \/ \E r \in {ExampleRectFar, ExampleRectNear} :
             \/ call = [function |-> "_calculate_distance",
                        args |-> <<"CIRCLE", ExampleCircle, "RECT", r>>]
             \/ call = [function |-> "_calculate_distance",
                        args |-> <<"RECT", r, "CIRCLE", ExampleCircle>>]
             \/ call = [function |-> "_calculate_distance_37_4",
                        args |-> <<"CIRCLE", ExampleCircle, "RECT", rect_corners(r)>>]
       \/ \E a \in GeoCircles, b \in GeoCircles :
             call = [function |-> "_calculate_distance",
                     args |-> <<"CIRCLE", a, "CIRCLE", b>>]
       \/ \E a \in GeoPoints \X GeoWidths \X GeoWidths, b \in GeoRectsNear :
             call = [function |-> "_calculate_distance",
                     args |-> <<"RECT", a, "RECT", b>>]
       \/ \E l \in GeoPoints \X GeoPoints, w \in GeoWidths, h \in GeoWidths :
             call = [function |-> "_calculate_distance",
                     args |-> <<"LINE", l, "RECT", <<<<0, 0>>, w, h>>>>]
       \/ \E l \in GeoPoints \X GeoPoints, r \in GeoRadii :
             call = [function |-> "_calculate_distance",
                     args |-> <<"LINE", l, "CIRCLE", <<<<0, 0>>, r>>>>]
       \/ \E p \in GeoPoints, r \in GeoRectsNear :
             \/ call = [function |-> "_dist_signed_point_to_rect",
                        args |-> <<p, r[1], r[2], r[3]>>]
             \/ call = [function |-> "_dist_signed_point_to_rect_37_4",
                        args |-> <<p, rect_corners(r)[1], rect_corners(r)[2]>>]
       \/ \E p \in GeoPoints, a \in GeoPoints, b \in GeoPoints :
             call = [function |-> "_dist_point_to_segment",
                     args |-> <<p, a, b>>]
    /\ returned = NotRun
    /\ criteria = "geometry"
    /\ tp_df = <<>>
    /\ pad_df = <<>>
    /\ component_df = <<>>
    /\ results_35_4 = NotRun
    /\ results_37_4 = NotRun
    /\ results_legacy = NotRun
    /\ legacy_candidates = NotRun
    /\ ran = {}
    /\ connector_df = <<>>
    /\ results_32_3 = NotRun
    /\ results_29_3 = NotRun
    /\ todo = {}
    /\ partial = <<>>
    /\ idle("rerun") /\ idle("sheet") /\ idle("splitter")

geometry_frame ==
    /\ ran' = ran \cup {call.function}
    /\ UNCHANGED <<criteria, tp_df, call>>
    /\ UNCHANGED <<matcher_vars, net_join_vars, pass_vars, rerun_vars, sheet_vars,
                   splitter_vars>>

\* _calculate_distance(tp_shape, tp_params, pad_shape, pad_params) of criteria_35_4.py
call_calculate_distance ==
    /\ ran = {}
    /\ call.function = "_calculate_distance"
    /\ returned' = _calculate_distance(call.args[1], call.args[2],
                                       call.args[3], call.args[4])
    /\ geometry_frame

\* _calculate_distance(...) of criteria_37_4.py
call_calculate_distance_37_4 ==
    /\ ran = {}
    /\ call.function = "_calculate_distance_37_4"
    /\ returned' = _calculate_distance_37_4(call.args[1], call.args[2],
                                            call.args[3], call.args[4])
    /\ geometry_frame

\* _dist_signed_point_to_rect(p, rect_center, rect_w, rect_h) of criteria_35_4.py
call_dist_signed_point_to_rect ==
    /\ ran = {}
    /\ call.function = "_dist_signed_point_to_rect"
    /\ returned' = _dist_signed_point_to_rect(call.args[1], call.args[2],
                                              call.args[3], call.args[4])
    /\ geometry_frame

\* _dist_signed_point_to_rect(p, rect_min, rect_max) of criteria_37_4.py
call_dist_signed_point_to_rect_37_4 ==
    /\ ran = {}
    /\ call.function = "_dist_signed_point_to_rect_37_4"
    /\ returned' = _dist_signed_point_to_rect_37_4(call.args[1], call.args[2],
                                                   call.args[3])
    /\ geometry_frame

\* _dist_point_to_segment(p, a, b)
call_dist_point_to_segment ==
    /\ ran = {}
    /\ call.function = "_dist_point_to_segment"
    /\ returned' = _dist_point_to_segment(call.args[1], call.args[2], call.args[3])
    /\ geometry_frame

NextGeometry ==
    \/ call_calculate_distance
    \/ call_calculate_distance_37_4
    \/ call_dist_signed_point_to_rect
    \/ call_dist_signed_point_to_rect_37_4
    \/ call_dist_point_to_segment

SpecGeometry == InitGeometry /\ [][NextGeometry]_vars

(***************************************************************************)
(* Test points of any recorded shape.  get_test_point_list copies          *)
(* GRAPHIC_DATA_NAME and GRAPHIC_DATA_4 of the sheet into shape_name and   *)
(* height, whatever they hold; here one test point with any of three shape *)
(* names, any height or none, meets one pad or one component of its layer. *)
(***************************************************************************)
TpShapeNames == {"CIRCLE", "RECTANGLE", "LINE"}

TpRowsAnyShape ==
    {blank_cells(row, cols) :
        row \in [testpoint_id : {"TP1"}, shape_name : TpShapeNames,
                 x : Coords, y : Coords, width : Widths, height : Widths,
                 layer : {"SOLDERMASK_TOP"}, nan : {{}}],
        cols \in {{}, {"height"}}}

InitShapes ==
    /\ tp_df \in [1..1 -> TpRowsAnyShape]
    /\ \/ /\ criteria = "criteria_35"
          /\ pad_df \in [1..1 -> {r \in PadRows : r.layer = "TOP" /\ r.pad_id = "U1"}]
          /\ component_df = <<>>
       \/ /\ criteria = "criteria_37"
          /\ component_df \in [1..1 -> {r \in ComponentRows :
                                          /\ r.layer = "PLACE_BOUND_TOP"
                                          /\ r.component_id = "U1"}]
          /\ pad_df = <<>>
    /\ results_35_4 = NotRun
    /\ results_37_4 = NotRun
    /\ results_legacy = NotRun
    /\ legacy_candidates = NotRun
    /\ ran = {}
    /\ connector_df = <<>>
    /\ results_32_3 = NotRun
    /\ results_29_3 = NotRun
    /\ todo = {}
    /\ partial = <<>>
    /\ idle("geometry") /\ idle("rerun") /\ idle("sheet") /\ idle("splitter")

SpecShapes == InitShapes /\ [][NextBlank]_vars

(***************************************************************************)
(* criteria_37_3.py: get_component_list.  A row of the sheet SYM_NAME      *)
(* holds REFDES, SUBCLASS, GRAPHIC_DATA_NAME and GRAPHIC_DATA_1..4; nan is  *)
(* the set of the four coordinate columns that pd.to_numeric left as NaN.  *)
(* Sheets of rows that differ in their keys sweep the grouping, sheets of  *)
(* rows of one component and layer sweep the coordinates.                  *)
(***************************************************************************)
MaxSheetRows == 3
MaxSheetCoord == 1

\* rows at one place; REFDES may be missing
SymNameRowsKeys ==
    [REFDES : {"U1", "TP1", NaN},
     SUBCLASS : {"PLACE_BOUND_TOP", "PLACE_BOUND_BOTTOM", "ASSEMBLY_TOP"},
     GRAPHIC_DATA_NAME : {"LINE", "TEXT"},
     GRAPHIC_DATA_1 : {0}, GRAPHIC_DATA_2 : {0}, GRAPHIC_DATA_3 : {1},
     GRAPHIC_DATA_4 : {1}, nan : {{}}]

\* rows of U1 on PLACE_BOUND_TOP: four numbers, two numbers, or none
SymNameRowsCoordinates ==
    {blank_cells(row, cols) :
        row \in [REFDES : {"U1"}, SUBCLASS : {"PLACE_BOUND_TOP"},
                 GRAPHIC_DATA_NAME : {"RECTANGLE"},
                 GRAPHIC_DATA_1 : 0..MaxSheetCoord, GRAPHIC_DATA_2 : {0},
                 GRAPHIC_DATA_3 : 0..MaxSheetCoord, GRAPHIC_DATA_4 : 0..MaxSheetCoord,
                 nan : {{}}],
        cols \in {{}, {"GRAPHIC_DATA_3", "GRAPHIC_DATA_4"},
                  {"GRAPHIC_DATA_1", "GRAPHIC_DATA_2", "GRAPHIC_DATA_3",
                   "GRAPHIC_DATA_4"}}}

\* df[df['SUBCLASS'].isin(subclasses_to_keep)], then GRAPHIC_DATA_NAME != 'TEXT'
filtered_df(df) ==
    SelectSeq(SelectSeq(df, LAMBDA row : row.SUBCLASS \in {"PLACE_BOUND_TOP",
                                                          "PLACE_BOUND_BOTTOM"}),
              LAMBDA row : row.GRAPHIC_DATA_NAME # "TEXT")

\* min_x from GRAPHIC_DATA_1 and max_x from GRAPHIC_DATA_3 alone, min_y and
\* max_y from GRAPHIC_DATA_2 and GRAPHIC_DATA_4 alone
calculate_bounds_by_column(group) ==
    LET values(col) == {group[i][col] : i \in {i \in DOMAIN group : col \notin group[i].nan}}
        least(col) == IF values(col) = {} THEN 0
                      ELSE CHOOSE v \in values(col) : \A w \in values(col) : v <= w
        greatest(col) == IF values(col) = {} THEN 0
                         ELSE CHOOSE v \in values(col) : \A w \in values(col) : v >= w
    IN  [component_id |-> group[1].REFDES,
         shape_name |-> group[1].GRAPHIC_DATA_NAME,
         min_x |-> least("GRAPHIC_DATA_1"), min_y |-> least("GRAPHIC_DATA_2"),
         max_x |-> greatest("GRAPHIC_DATA_3"), max_y |-> greatest("GRAPHIC_DATA_4"),
         layer |-> group[1].SUBCLASS,
         nan |-> (IF values("GRAPHIC_DATA_1") = {} THEN {"min_x"} ELSE {})
                 \cup (IF values("GRAPHIC_DATA_3") = {} THEN {"max_x"} ELSE {})
                 \cup (IF values("GRAPHIC_DATA_2") = {} THEN {"min_y"} ELSE {})
                 \cup (IF values("GRAPHIC_DATA_4") = {} THEN {"max_y"} ELSE {})]

\* calculate_bounds(group) with the group's key and layer: min and max skip NaN
\* and are NaN for a group without a number on the axis
calculate_bounds(group) ==
    LET numbers(cols) ==
            UNION {{group[i][col] : col \in cols \ group[i].nan} : i \in DOMAIN group}
        x_coords == numbers({"GRAPHIC_DATA_1", "GRAPHIC_DATA_3"})
        y_coords == numbers({"GRAPHIC_DATA_2", "GRAPHIC_DATA_4"})
        least(s) == IF s = {} THEN 0 ELSE CHOOSE v \in s : \A w \in s : v <= w
        greatest(s) == IF s = {} THEN 0 ELSE CHOOSE v \in s : \A w \in s : v >= w
    IN  [component_id |-> group[1].REFDES,
         shape_name |-> group[1].GRAPHIC_DATA_NAME,
         min_x |-> least(x_coords), min_y |-> least(y_coords),
         max_x |-> greatest(x_coords), max_y |-> greatest(y_coords),
         layer |-> group[1].SUBCLASS,
         nan |-> (IF x_coords = {} THEN {"min_x", "max_x"} ELSE {})
                 \cup (IF y_coords = {} THEN {"min_y", "max_y"} ELSE {})]

\* the groups of (REFDES, SUBCLASS), rows without REFDES in none, each
\* aggregated; the rows of the result in the order of the first row of each group
get_component_list(df) ==
    LET keyed == SelectSeq(filtered_df(df), LAMBDA row : row.REFDES # NaN)
        keys == first_occurrences([i \in DOMAIN keyed |->
                                      <<keyed[i].REFDES, keyed[i].SUBCLASS>>])
        group(key) == SelectSeq(keyed, LAMBDA row : <<row.REFDES, row.SUBCLASS>> = key)
    IN  [n \in DOMAIN keys |-> calculate_bounds(group(keys[n]))]

\* a sheet; when rows pass the filters, one of them has a REFDES
InitSheet ==
    /\ \E n \in 0..MaxSheetRows :
          \/ sym_name_df \in [1..n -> SymNameRowsKeys]
          \/ n >= 2 /\ sym_name_df \in [1..(n - 1) -> SymNameRowsCoordinates]
    /\ filtered_df(sym_name_df) # <<>>
          => \E i \in DOMAIN sym_name_df :
                /\ sym_name_df[i].REFDES # NaN
                /\ filtered_df(<<sym_name_df[i]>>) # <<>>
    /\ criteria = "criteria_37"
    /\ tp_df = <<>>
    /\ pad_df = <<>>
    /\ component_df = <<>>
    /\ results_35_4 = NotRun
    /\ results_37_4 = NotRun
    /\ results_legacy = NotRun
    /\ legacy_candidates = NotRun
    /\ ran = {}
    /\ connector_df = <<>>
    /\ results_32_3 = NotRun
    /\ results_29_3 = NotRun
    /\ todo = {}
    /\ partial = <<>>
    /\ idle("geometry") /\ idle("rerun") /\ idle("splitter")

\* python criteria_37_3.py
run_criteria_37_3 ==
    /\ "criteria_37_3" \notin ran
    /\ ran' = ran \cup {"criteria_37_3"}
    /\ component_df' = get_component_list(sym_name_df)
    /\ UNCHANGED <<criteria, tp_df, pad_df, results_35_4, results_37_4,
                   results_legacy, legacy_candidates>>
    /\ UNCHANGED <<net_join_vars, pass_vars, geometry_vars, rerun_vars, sheet_vars,
                   splitter_vars>>

SpecSheet == InitSheet /\ [][run_criteria_37_3]_vars

(***************************************************************************)
(* cadence2excel/split_cadence_tables.py: parse_cadence_file.  A line is   *)
(* the sequence of its characters; the file is read line by line, one step *)
(* of the loop per line, and the last table is stored after the loop.      *)
(* None is the empty name: both are false in `if current_table`.           *)
(***************************************************************************)
MaxLines == 4

\* header lines (one indented, in lower case and with a second column), file
\* information and data lines (one with a trailing blank), a blank line, and
\* lines with another prefix
InputLines ==
    {<<"A", "!", "N">>, <<" ", "A", "!", "n", "!", "R">>,
     <<"J", "!", "f">>, <<"S", "!", "1">>, <<"S", "!", "2", " ">>,
     <<" ">>, <<"X", "!", "1">>, <<"a", "!", "N">>}

\* line.strip()
strip(line) ==
    LET inked == {i \in DOMAIN line : line[i] # " "}
    IN  IF inked = {} THEN <<>>
        ELSE SubSeq(line, CHOOSE i \in inked : \A j \in inked : i <= j,
                          CHOOSE i \in inked : \A j \in inked : i >= j)

\* line.startswith(prefix)
startswith(line, prefix) ==
    Len(line) >= Len(prefix) /\ SubSeq(line, 1, Len(prefix)) = prefix

\* headers[0].lower()
lower(chars) ==
    [i \in DOMAIN chars |->
        CASE chars[i] = "A" -> "a" [] chars[i] = "J" -> "j" [] chars[i] = "N" -> "n"
          [] chars[i] = "R" -> "r" [] chars[i] = "S" -> "s" [] chars[i] = "X" -> "x"
          [] OTHER -> chars[i]]

\* f"{n:02d}", n < 100
two_digits(n) ==
    LET digit(d) == <<"0", "1", "2", "3", "4", "5", "6", "7", "8", "9">>[d + 1]
    IN  <<digit(n \div 10), digit(n % 10)>>

\* the table is named after its first column alone
table_name_of_header(stored, line) ==
    LET rest == SubSeq(line, 3, Len(line))
        marks == {i \in DOMAIN rest : rest[i] = "!"}
        first == IF marks = {} THEN rest
                 ELSE SubSeq(rest, 1, (CHOOSE i \in marks : \A j \in marks : i <= j) - 1)
    IN  <<"t", "a", "b", "l", "e", "_">> \o lower(first)

\* f"table_{len(tables)+1:02d}_{headers[0].lower()}", headers = line[2:].split('!')
table_name(stored, line) ==
    LET rest == SubSeq(line, 3, Len(line))
        marks == {i \in DOMAIN rest : rest[i] = "!"}
        first == IF marks = {} THEN rest
                 ELSE SubSeq(rest, 1, (CHOOSE i \in marks : \A j \in marks : i <= j) - 1)
    IN  <<"t", "a", "b", "l", "e", "_">>
        \o two_digits(Cardinality(DOMAIN stored) + 1) \o <<"_">> \o lower(first)

\* if current_table and current_table_lines: tables[current_table] = current_table_lines
save_table(stored, name, lines) ==
    IF name # <<>> /\ lines # <<>>
    THEN [key \in (DOMAIN stored) \cup {name} |->
             IF key = name THEN lines ELSE stored[key]]
    ELSE stored

InitSplit ==
    /\ \E n \in 0..MaxLines : file \in [1..n -> InputLines]
    /\ line_num = 0
    /\ tables = <<>>
    /\ current_table = <<>>
    /\ current_table_lines = <<>>
    /\ criteria = "split_cadence_tables"
    /\ tp_df = <<>>
    /\ pad_df = <<>>
    /\ component_df = <<>>
    /\ results_35_4 = NotRun
    /\ results_37_4 = NotRun
    /\ results_legacy = NotRun
    /\ legacy_candidates = NotRun
    /\ ran = {}
    /\ connector_df = <<>>
    /\ results_32_3 = NotRun
    /\ results_29_3 = NotRun
    /\ todo = {}
    /\ partial = <<>>
    /\ idle("geometry") /\ idle("rerun") /\ idle("sheet")

\* one turn of `for line_num, line in enumerate(f, 1)`
read_line ==
    /\ "parse_cadence_file" \notin ran
    /\ line_num < Len(file)
    /\ line_num' = line_num + 1
    /\ LET line == strip(file[line_num'])
       IN  IF line = <<>>
           THEN UNCHANGED <<tables, current_table, current_table_lines>>
           ELSE IF startswith(line, <<"A", "!">>)
           THEN /\ tables' = save_table(tables, current_table, current_table_lines)
                /\ current_table' = table_name(tables', line)
                /\ current_table_lines' = <<line>>
           ELSE IF (startswith(line, <<"J", "!">>) \/ startswith(line, <<"S", "!">>))
                   /\ current_table # <<>>
           THEN /\ current_table_lines' = Append(current_table_lines, line)
                /\ UNCHANGED <<tables, current_table>>
           ELSE UNCHANGED <<tables, current_table, current_table_lines>>
    /\ UNCHANGED <<criteria, tp_df, ran, file>>
    /\ UNCHANGED <<matcher_vars, net_join_vars, pass_vars, geometry_vars, rerun_vars,
                   sheet_vars>>

\* the file is at its end: the last table is stored and tables returned
return_tables ==
    /\ "parse_cadence_file" \notin ran
    /\ line_num = Len(file)
    /\ ran' = ran \cup {"parse_cadence_file"}
    /\ tables' = save_table(tables, current_table, current_table_lines)
    /\ UNCHANGED <<criteria, tp_df, file, line_num, current_table, current_table_lines>>
    /\ UNCHANGED <<matcher_vars, net_join_vars, pass_vars, geometry_vars, rerun_vars,
                   sheet_vars>>

NextSplit == read_line \/ return_tables

SpecSplit == InitSplit /\ [][NextSplit]_vars

(***************************************************************************)
(* Properties.                                                             *)
(***************************************************************************)
Ran(script) == script \in ran

\* the logical layer of a raw layer tag, per table
TpPartition(raw) ==
    IF raw = "SOLDERMASK_TOP" THEN "TOP"
    ELSE IF raw = "SOLDERMASK_BOTTOM" THEN "BOTTOM" ELSE "unmapped"
PadPartition(raw) ==
    IF raw = "TOP" THEN "TOP" ELSE IF raw = "BOTTOM" THEN "BOTTOM" ELSE "unmapped"
ComponentPartition(raw) ==
    IF raw = "PLACE_BOUND_TOP" THEN "TOP"
    ELSE IF raw = "PLACE_BOUND_BOTTOM" THEN "BOTTOM" ELSE "unmapped"

SamePartition35(tp_row, pad_row) ==
    /\ TpPartition(tp_row.layer) \in {"TOP", "BOTTOM"}
    /\ TpPartition(tp_row.layer) = PadPartition(pad_row.layer)
SamePartition37(tp_row, component_row) ==
    /\ TpPartition(tp_row.layer) \in {"TOP", "BOTTOM"}
    /\ TpPartition(tp_row.layer) = ComponentPartition(component_row.layer)

PadRecord(tp_row, pad_row) ==
    [testpoint_id |-> tp_row.testpoint_id, pad_id |-> pad_row.pad_id,
     layer |-> TpPartition(tp_row.layer),
     distance |-> pair_distance_35_4(tp_row, pad_row)]
ComponentRecord(tp_row, component_row) ==
    [testpoint_id |-> tp_row.testpoint_id,
     component_id |-> component_row.component_id,
     layer |-> TpPartition(tp_row.layer),
     distance |-> pair_distance_37_4(tp_row, component_row)]

Records(results) == {results[i] : i \in DOMAIN results}

\* C1: every record returned by judge_tp_pad_pin_positions and by
\* judge_tp_component_coverage has a distance strictly less than 0.
C1_DistanceNegative ==
    /\ Ran("criteria_35_4") => \A r \in Records(results_35_4) : Lt0(r.distance)
    /\ Ran("criteria_37_4") => \A r \in Records(results_37_4) : Lt0(r.distance)

\* a record whose distance comes from the Euclidean branch (a root minus a radius)
C1_Witness ==
    /\ Ran("criteria_35_4")
    /\ \E r \in Records(results_35_4) : r.distance.num > 0 /\ Lt0(r.distance)

\* C2: completeness: every (test point, object) pair of the same layer partition
\* with different ids and a negative distance has its record in the result.
C2_Complete ==
    /\ Ran("criteria_35_4") =>
          \A t \in DOMAIN tp_df : \A p \in DOMAIN pad_df :
             ( /\ SamePartition35(tp_df[t], pad_df[p])
               /\ tp_df[t].testpoint_id # pad_df[p].pad_id
               /\ Lt0(pair_distance_35_4(tp_df[t], pad_df[p])) )
             => PadRecord(tp_df[t], pad_df[p]) \in Records(results_35_4)
    /\ Ran("criteria_37_4") =>
          \A t \in DOMAIN tp_df : \A c \in DOMAIN component_df :
             ( /\ SamePartition37(tp_df[t], component_df[c])
               /\ tp_df[t].testpoint_id # component_df[c].component_id
               /\ Lt0(pair_distance_37_4(tp_df[t], component_df[c])) )
             => ComponentRecord(tp_df[t], component_df[c]) \in Records(results_37_4)

\* two test points and two pads on both layers, four records
C2_Witness ==
    /\ Ran("criteria_35_4")
    /\ Len(tp_df) = 2 /\ Len(pad_df) = 2
    /\ tp_df[1].testpoint_id # tp_df[2].testpoint_id
    /\ pad_df[1].pad_id # pad_df[2].pad_id
    /\ tp_df[1].layer = "SOLDERMASK_BOTTOM" /\ tp_df[2].layer = "SOLDERMASK_BOTTOM"
    /\ pad_df[1].layer = "BOTTOM" /\ pad_df[2].layer = "BOTTOM"
    /\ Len(results_35_4) = 4

\* C3: layer isolation: every record comes from a test point and an object of
\* one layer partition, TOP or BOTTOM, and carries that partition as its layer.
C3_LayerIsolation ==
    /\ Ran("criteria_35_4") =>
          \A r \in Records(results_35_4) :
             /\ r.layer \in {"TOP", "BOTTOM"}
             /\ \E t \in DOMAIN tp_df : \E p \in DOMAIN pad_df :
                   /\ r = PadRecord(tp_df[t], pad_df[p])
                   /\ TpPartition(tp_df[t].layer) = r.layer
                   /\ PadPartition(pad_df[p].layer) = r.layer
    /\ Ran("criteria_37_4") =>
          \A r \in Records(results_37_4) :
             /\ r.layer \in {"TOP", "BOTTOM"}
             /\ \E t \in DOMAIN tp_df : \E c \in DOMAIN component_df :
                   /\ r = ComponentRecord(tp_df[t], component_df[c])
                   /\ TpPartition(tp_df[t].layer) = r.layer
                   /\ ComponentPartition(component_df[c].layer) = r.layer

\* a TOP test point over a TOP pad and a BOTTOM pad at the same place: one record
C3_Witness ==
    /\ Ran("criteria_35_4")
    /\ Len(tp_df) = 1 /\ Len(pad_df) = 2
    /\ tp_df[1].layer = "SOLDERMASK_TOP"
    /\ pad_df[1].layer = "BOTTOM" /\ pad_df[2].layer = "TOP"
    /\ Len(results_35_4) = 1 /\ results_35_4[1].layer = "TOP"

\* C4: no record returned by judge_tp_component_coverage has testpoint_id equal
\* to component_id.
C4_ComponentSelfExclusion ==
    Ran("criteria_37_4") =>
        \A r \in Records(results_37_4) : r.testpoint_id # r.component_id

\* a test point inside the bounding box of the component of the same id
C4_Witness ==
    /\ Ran("criteria_37_4")
    /\ \E t \in DOMAIN tp_df : \E c \in DOMAIN component_df :
          /\ tp_df[t].testpoint_id = component_df[c].component_id
          /\ SamePartition37(tp_df[t], component_df[c])
          /\ Lt0(pair_distance_37_4(tp_df[t], component_df[c]))

\* C5: no record returned by judge_tp_pad_pin_positions has testpoint_id equal
\* to pad_id.
C5_PadSelfExclusion ==
    Ran("criteria_35_4") =>
        \A r \in Records(results_35_4) : r.testpoint_id # r.pad_id

\* C6: a pair whose computed distance is exactly 0 produces no record.
C6_TouchingNotReported ==
    /\ Ran("criteria_35_4") =>
          \A t \in DOMAIN tp_df : \A p \in DOMAIN pad_df :
             Eq0(pair_distance_35_4(tp_df[t], pad_df[p]))
             => PadRecord(tp_df[t], pad_df[p]) \notin Records(results_35_4)
    /\ Ran("criteria_37_4") =>
          \A t \in DOMAIN tp_df : \A c \in DOMAIN component_df :
             Eq0(pair_distance_37_4(tp_df[t], component_df[c]))
             => ComponentRecord(tp_df[t], component_df[c]) \notin Records(results_37_4)

\* a test point that touches a component of another id on its own layer
C6_Witness ==
    /\ Ran("criteria_37_4")
    /\ \E t \in DOMAIN tp_df : \E c \in DOMAIN component_df :
          /\ tp_df[t].testpoint_id # component_df[c].component_id
          /\ SamePartition37(tp_df[t], component_df[c])
          /\ Eq0(pair_distance_37_4(tp_df[t], component_df[c]))
    /\ results_37_4 = <<>>

IdPairs(results) == {<<r.testpoint_id, r.pad_id>> : r \in Records(results)}

\* C7: the set of (testpoint_id, pad_id) overlap pairs of the spatial-index
\* matcher equals the set of the nested-loop matcher, on the same tables.
C7_SpatialIndexEquivalence ==
    (Ran("criteria_35_4") /\ Ran("legacy_criteria_35_4"))
    => IdPairs(results_legacy) = IdPairs(results_35_4)

\* C8: for every test point, the candidates of the bounding-box index contain
\* every pad whose shape intersects the shape of the test point.
C8_BroadPhaseSuperset ==
    Ran("legacy_criteria_35_4") =>
        \A t \in DOMAIN legacy_candidates : \A i \in DOMAIN pad_df :
            shapely_intersects(_create_tp_shape(tp_df[t]), _create_pad_shape(pad_df[i]))
            => i \in legacy_candidates[t]

\* a round pad that touches the test point at one point of its outline, where
\* the two bounding boxes share only an edge
C8_Witness ==
    /\ Ran("legacy_criteria_35_4")
    /\ \E t \in DOMAIN legacy_candidates : \E i \in DOMAIN pad_df :
          /\ _create_pad_shape(pad_df[i]).kind = "BUFFER"
          /\ shapely_intersects(_create_tp_shape(tp_df[t]), _create_pad_shape(pad_df[i]))
          /\ ~boxes_intersect_strict(shape_bounds(_create_tp_shape(tp_df[t])),
                                     shape_bounds(_create_pad_shape(pad_df[i])))
          /\ i \in legacy_candidates[t]

\* the distance of a circular test point to a segment pad: the distance of the
\* centre to the segment, minus the radius
CircleSegmentDistance(tp_row, pad_row) ==
    DSub(_dist_point_to_segment(<<Dbl(tp_row.x), Dbl(tp_row.y)>>,
                                <<Dbl(pad_row.x), Dbl(pad_row.y)>>,
                                <<Dbl(pad_row.width), Dbl(pad_row.height)>>),
         tp_row.width)

\* C9: for a circular test point and a pad mapped to a segment the matcher uses
\* the point-to-segment distance of the centre minus the radius, and reports the
\* pair when the circle reaches across the segment.
C9_CircleSegmentDistance ==
    Ran("criteria_35_4") =>
        \A t \in DOMAIN tp_df : \A p \in DOMAIN pad_df :
            ( /\ SamePartition35(tp_df[t], pad_df[p])
              /\ pad_df[p].PAD_SHAPE_NAME = "FIG_SHAPE SHAPE1_5X2_4" )
            => /\ pair_distance_35_4(tp_df[t], pad_df[p])
                     = CircleSegmentDistance(tp_df[t], pad_df[p])
               /\ Lt0(CircleSegmentDistance(tp_df[t], pad_df[p]))
                     => \E r \in Records(results_35_4) :
                           /\ r.testpoint_id = tp_df[t].testpoint_id
                           /\ r.pad_id = pad_df[p].pad_id

\* C10: a pad is a Circle at (x, y) of radius width/2 iff PAD_SHAPE_NAME is
\* 'CIRCLE', a Segment from (x, y) to (width, height) iff it is the line marker,
\* and otherwise a Rectangle centred at (x, y) of half extents width/2, height/2.
C10_PadShapeFactory ==
    Ran("criteria_35_4") =>
        \A p \in DOMAIN pad_df :
            LET row == pad_df[p]
                built == pad_shape_35_4(row)
                centre == <<Dbl(row.x), Dbl(row.y)>>
            IN  /\ built.shape \in {"CIRCLE", "LINE", "RECT"}
                /\ built.shape = "CIRCLE" <=> row.PAD_SHAPE_NAME = "CIRCLE"
                /\ built.shape = "LINE"
                      <=> row.PAD_SHAPE_NAME = "FIG_SHAPE SHAPE1_5X2_4"
                /\ built.shape = "CIRCLE" =>
                      /\ built.params[1] = centre
                      /\ 2 * built.params[2] = Dbl(row.width)
                /\ built.shape = "LINE" =>
                      /\ built.params[1] = centre
                      /\ built.params[2] = <<Dbl(row.width), Dbl(row.height)>>
                /\ built.shape = "RECT" =>
                      /\ built.params[1] = centre
                      /\ 2 * (built.params[2] \div 2) = Dbl(row.width)
                      /\ 2 * (built.params[3] \div 2) = Dbl(row.height)

\* a pad with the line marker went through the matcher
C10_Witness ==
    /\ Ran("criteria_35_4")
    /\ \E p \in DOMAIN pad_df :
          /\ pad_df[p].PAD_SHAPE_NAME = "FIG_SHAPE SHAPE1_5X2_4"
          /\ pad_shape_35_4(pad_df[p]).shape = "LINE"
          /\ \E t \in DOMAIN tp_df : SamePartition35(tp_df[t], pad_df[p])

\* the number of layer partitions, TOP and BOTTOM, that hold the row
PartitionsHolding(row, top, bottom) ==
    (IF row \in Records(top) THEN 1 ELSE 0) + (IF row \in Records(bottom) THEN 1 ELSE 0)

\* C11: a row whose raw layer is outside its table's layer map is in no layer
\* partition and its id reaches a record only through another, mapped row of
\* that id; every row with a mapped layer is in exactly one of TOP and BOTTOM.
C11_UnmappedLayersExcluded ==
    /\ Ran("criteria_35_4") =>
          /\ \A t \in DOMAIN tp_df :
                PartitionsHolding(tp_df[t], layer_filter(tp_df, "SOLDERMASK_TOP"),
                                  layer_filter(tp_df, "SOLDERMASK_BOTTOM"))
                   = IF TpPartition(tp_df[t].layer) = "unmapped" THEN 0 ELSE 1
          /\ \A p \in DOMAIN pad_df :
                PartitionsHolding(pad_df[p], layer_filter(pad_df, "TOP"),
                                  layer_filter(pad_df, "BOTTOM"))
                   = IF PadPartition(pad_df[p].layer) = "unmapped" THEN 0 ELSE 1
          /\ \A r \in Records(results_35_4) :
                /\ \E t \in DOMAIN tp_df :
                      /\ tp_df[t].testpoint_id = r.testpoint_id
                      /\ TpPartition(tp_df[t].layer) # "unmapped"
                /\ \E p \in DOMAIN pad_df :
                      /\ pad_df[p].pad_id = r.pad_id
                      /\ PadPartition(pad_df[p].layer) # "unmapped"
    /\ (Ran("criteria_37_4") /\ tp_df # <<>> /\ component_df # <<>>) =>
          /\ \A t \in DOMAIN tp_df :
                PartitionsHolding(tp_df[t], standard_layer_filter(tp_df, "TOP"),
                                  standard_layer_filter(tp_df, "BOTTOM"))
                   = IF TpPartition(tp_df[t].layer) = "unmapped" THEN 0 ELSE 1
          /\ \A c \in DOMAIN component_df :
                PartitionsHolding(component_df[c],
                                  standard_layer_filter(component_df, "TOP"),
                                  standard_layer_filter(component_df, "BOTTOM"))
                   = IF ComponentPartition(component_df[c].layer) = "unmapped"
                     THEN 0 ELSE 1
          /\ \A r \in Records(results_37_4) :
                /\ \E t \in DOMAIN tp_df :
                      /\ tp_df[t].testpoint_id = r.testpoint_id
                      /\ TpPartition(tp_df[t].layer) # "unmapped"
                /\ \E c \in DOMAIN component_df :
                      /\ component_df[c].component_id = r.component_id
                      /\ ComponentPartition(component_df[c].layer) # "unmapped"

\* a PASTEMASK_TOP test point and an ASSEMBLY_TOP component lie over a mapped
\* pair of other ids at the same place: the only record is the mapped pair's
C11_Witness ==
    /\ Ran("criteria_37_4")
    /\ Len(tp_df) = 2 /\ Len(component_df) = 2
    /\ tp_df[1].layer = "PASTEMASK_TOP" /\ tp_df[2].layer = "SOLDERMASK_TOP"
    /\ tp_df[1].testpoint_id = "TP1" /\ tp_df[2].testpoint_id = "TP2"
    /\ component_df[1].layer = "ASSEMBLY_TOP"
    /\ component_df[2].layer = "PLACE_BOUND_TOP"
    /\ component_df[1].component_id = "TP1" /\ component_df[2].component_id = "U1"
    /\ Len(results_37_4) = 1
    /\ results_37_4[1].testpoint_id = "TP2" /\ results_37_4[1].component_id = "U1"

\* the row has a blank cell in a column its shape is built from
TpUndefined(tp_row) == tp_row.nan \cap {"x", "y", "width"} # {}
PadUndefined(pad_row) ==
    pad_row.nan \cap (IF pad_row.PAD_SHAPE_NAME = "CIRCLE"
                      THEN {"x", "y", "width"}
                      ELSE {"x", "y", "width", "height"}) # {}
ComponentUndefined(component_row) ==
    component_row.nan \cap {"min_x", "min_y", "max_x", "max_y"} # {}

\* C12: a row with a missing (NaN) geometric field gives no record: every id in
\* a record belongs to a row whose geometry is defined; and every overlapping
\* pair of rows with defined geometry is still reported.
C12_UndefinedGeometrySkipped ==
    /\ Ran("criteria_35_4") =>
          /\ \A r \in Records(results_35_4) :
                \E t \in DOMAIN tp_df : \E p \in DOMAIN pad_df :
                   /\ r = PadRecord(tp_df[t], pad_df[p])
                   /\ ~TpUndefined(tp_df[t]) /\ ~PadUndefined(pad_df[p])
          /\ \A t \in DOMAIN tp_df : \A p \in DOMAIN pad_df :
                ( /\ ~TpUndefined(tp_df[t]) /\ ~PadUndefined(pad_df[p])
                  /\ SamePartition35(tp_df[t], pad_df[p])
                  /\ Lt0(_calculate_distance(
                             "CIRCLE", tp_circle(tp_df[t]).params,
                             pad_shape_35_4(pad_df[p]).shape,
                             pad_shape_35_4(pad_df[p]).params)) )
                => PadRecord(tp_df[t], pad_df[p]) \in Records(results_35_4)
    /\ Ran("criteria_37_4") =>
          /\ \A r \in Records(results_37_4) :
                \E t \in DOMAIN tp_df : \E c \in DOMAIN component_df :
                   /\ r = ComponentRecord(tp_df[t], component_df[c])
                   /\ ~TpUndefined(tp_df[t])
                   /\ ~ComponentUndefined(component_df[c])
          /\ \A t \in DOMAIN tp_df : \A c \in DOMAIN component_df :
                ( /\ ~TpUndefined(tp_df[t]) /\ ~ComponentUndefined(component_df[c])
                  /\ SamePartition37(tp_df[t], component_df[c])
                  /\ tp_df[t].testpoint_id # component_df[c].component_id
                  /\ Lt0(_calculate_distance_37_4(
                             "CIRCLE", tp_circle(tp_df[t]).params,
                             component_shape_37_4(component_df[c]).shape,
                             component_shape_37_4(component_df[c]).params)) )
                => ComponentRecord(tp_df[t], component_df[c])
                      \in Records(results_37_4)

\* a test point without a width and one with a width over a rectangular pad:
\* the only record is the pair with defined geometry
C12_Witness ==
    /\ Ran("criteria_35_4")
    /\ Len(tp_df) = 2 /\ Len(pad_df) = 1
    /\ tp_df[1].nan = {"width"} /\ tp_df[1].testpoint_id = "TP1"
    /\ tp_df[2].nan = {} /\ tp_df[2].testpoint_id = "TP2"
    /\ pad_df[1].nan = {} /\ pad_df[1].PAD_SHAPE_NAME = "RECTANGLE"
    /\ Len(results_35_4) = 1 /\ results_35_4[1].testpoint_id = "TP2"

\* the rows of a table that fall into one layer partition
TpOfLayer(name) == {t \in DOMAIN tp_df : TpPartition(tp_df[t].layer) = name}
PadOfLayer(name) == {p \in DOMAIN pad_df : PadPartition(pad_df[p].layer) = name}
ComponentOfLayer(name) ==
    {c \in DOMAIN component_df : ComponentPartition(component_df[c].layer) = name}

\* C13: with an empty test-point table or an empty object table the matcher
\* returns the empty result; a layer whose partition is empty on either side
\* has no record, and the pairs of the other layer are still reported.
C13_EmptyInputs ==
    /\ Ran("criteria_35_4") =>
          /\ results_35_4 # NotRun
          /\ (tp_df = <<>> \/ pad_df = <<>>) => results_35_4 = <<>>
          /\ \A name \in {"TOP", "BOTTOM"} :
                IF TpOfLayer(name) = {} \/ PadOfLayer(name) = {}
                THEN \A r \in Records(results_35_4) : r.layer # name
                ELSE \A t \in TpOfLayer(name) : \A p \in PadOfLayer(name) :
                        Lt0(pair_distance_35_4(tp_df[t], pad_df[p]))
                        => PadRecord(tp_df[t], pad_df[p]) \in Records(results_35_4)
    /\ Ran("criteria_37_4") =>
          /\ results_37_4 # NotRun
          /\ (tp_df = <<>> \/ component_df = <<>>) => results_37_4 = <<>>
          /\ \A name \in {"TOP", "BOTTOM"} :
                IF TpOfLayer(name) = {} \/ ComponentOfLayer(name) = {}
                THEN \A r \in Records(results_37_4) : r.layer # name
                ELSE \A t \in TpOfLayer(name) : \A c \in ComponentOfLayer(name) :
                        ( /\ tp_df[t].testpoint_id # component_df[c].component_id
                          /\ Lt0(pair_distance_37_4(tp_df[t], component_df[c])) )
                        => ComponentRecord(tp_df[t], component_df[c])
                              \in Records(results_37_4)

\* no test point on TOP, pads on TOP and BOTTOM: the BOTTOM pair is reported
C13_Witness ==
    /\ Ran("criteria_35_4")
    /\ Len(tp_df) = 1 /\ Len(pad_df) = 2
    /\ tp_df[1].layer = "SOLDERMASK_BOTTOM"
    /\ pad_df[1].layer = "TOP" /\ pad_df[2].layer = "BOTTOM"
    /\ Len(results_35_4) = 1 /\ results_35_4[1].layer = "BOTTOM"

\* the (left id, right id, net) triples of the records of a net join
JoinTriples(results, right) ==
    {<<r.testpoint_id, r[right], r.net_name>> : r \in Records(results)}

\* the triples of the per-net cartesian product of the two tables
ProductTriples(right) ==
    {<<tp_df[pair[1]].testpoint_id, connector_df[pair[2]][right],
       tp_df[pair[1]].net_name>> :
        pair \in {pr \in (DOMAIN tp_df) \X (DOMAIN connector_df) :
                     /\ tp_df[pr[1]].net_name # NaN
                     /\ tp_df[pr[1]].net_name = connector_df[pr[2]].net_name}}

\* C14: the net join returns a record (left id, right id, net) exactly for the
\* pairs of a test-point row and a connector row that carry the same net name,
\* which is not missing; no record has a missing net name.
C14_NetJoinProduct ==
    /\ Ran("criteria_32_3") =>
          /\ JoinTriples(results_32_3, "component_id") = ProductTriples("connector_id")
          /\ \A r \in Records(results_32_3) : r.net_name # NaN
    /\ Ran("crit_29_3") =>
          /\ JoinTriples(results_29_3, "pin_id") = ProductTriples("pin_id")
          /\ \A r \in Records(results_29_3) : r.net_name # NaN

\* left = [(TP1, 3V3), (TP2, GND)], right = [(XP1_1, 3V3), (XP1_2, 3V3)] gives
\* exactly (TP1, XP1_1, 3V3) and (TP1, XP1_2, 3V3)
C14_Witness ==
    /\ Ran("criteria_32_3")
    /\ tp_df = <<[testpoint_id |-> "TP1", net_name |-> "3V3"],
                 [testpoint_id |-> "TP2", net_name |-> "GND"]>>
    /\ connector_df = <<[connector_id |-> "XP1_1", net_name |-> "3V3"],
                        [connector_id |-> "XP1_2", net_name |-> "3V3"]>>
    /\ JoinTriples(results_32_3, "component_id")
          = {<<"TP1", "XP1_1", "3V3">>, <<"TP1", "XP1_2", "3V3">>}
    /\ Len(results_32_3) = 2

\* C15: in every record of the net join the label matching_pairs is the left
\* id, the separator " - " and the right id, in that order.
C15_NetJoinLabel ==
    /\ Ran("criteria_32_3") =>
          \A r \in Records(results_32_3) :
             r.matching_pairs = r.testpoint_id \o " - " \o r.component_id
    /\ Ran("crit_29_3") =>
          \A r \in Records(results_29_3) :
             r.matching_pairs = r.testpoint_id \o " - " \o r.pin_id

\* the net name begins with a digit
DigitLeading(net_name) == code_points(net_name)[1] \in 48..57

\* record a stands at or before record b in the result order; a missing
\* right id has no place in that order
InJoinOrder(a, b, right) ==
    \/ DigitLeading(a.net_name) /\ ~DigitLeading(b.net_name)
    \/ /\ DigitLeading(a.net_name) = DigitLeading(b.net_name)
       /\ \/ str_less(a.net_name, b.net_name)
          \/ /\ a.net_name = b.net_name
             /\ \/ str_less(a.testpoint_id, b.testpoint_id)
                \/ /\ a.testpoint_id = b.testpoint_id
                   /\ \/ a[right] = NA
                      \/ b[right] = NA
                      \/ a[right] = b[right]
                      \/ str_less(a[right], b[right])

C17_NetJoinNoDuplicates ==
    /\ Ran("criteria_32_3") =>
          \A i, j \in DOMAIN results_32_3 : results_32_3[i] = results_32_3[j] => i = j
    /\ Ran("crit_29_3") =>
          \A i, j \in DOMAIN results_29_3 : results_29_3[i] = results_29_3[j] => i = j

\* the test-point table lists one (id, net_name) pair twice and the pair is
\* joined to a pin
C17_Witness ==
    /\ Ran("crit_29_3")
    /\ Len(tp_df) = 2 /\ tp_df[1] = tp_df[2]
    /\ Len(connector_df) = 1
    /\ Len(results_29_3) = 1

\* C18: a run of a matcher leaves the test-point table and the pad or component
\* table unchanged: no row or column is added, removed or altered.
C18_InputsReadOnly ==
    [][/\ tp_df' = tp_df
       /\ pad_df' = pad_df
       /\ component_df' = component_df]_vars

\* C19: whatever the order in which the passes of the two layers and of the
\* test points ran, the matcher returns the set of records of the sequential
\* run, TOP then BOTTOM, test points in table order.
C19_PassesIndependent ==
    /\ Ran("criteria_35_4") =>
          Records(results_35_4) = Records(judge_tp_pad_pin_positions(tp_df, pad_df))
    /\ Ran("criteria_37_4") =>
          Records(results_37_4)
             = IF tp_df = <<>> \/ component_df = <<>> THEN {}
               ELSE Records(judge_tp_component_coverage(tp_df, component_df))

\* a BOTTOM pass ran before a TOP pass and both found their overlap
C19_Witness ==
    /\ Ran("criteria_35_4")
    /\ Len(results_35_4) >= 2
    /\ results_35_4[1].layer = "BOTTOM"
    /\ results_35_4[Len(results_35_4)].layer = "TOP"
    /\ results_35_4 # judge_tp_pad_pin_positions(tp_df, pad_df)

\* the pairs (row of the first table, row of the second table), the first
\* table outermost, both in table order
NestedPairs(rows, objects) ==
    [i \in 1..(rows * objects) |->
        <<((i - 1) \div objects) + 1, ((i - 1) % objects) + 1>>]

\* the records of one layer in nested-iteration order: of the pairs of that
\* layer, those whose record is in the result
PadRecordsInOrder(name) ==
    LET reported ==
            SelectSeq(NestedPairs(Len(tp_df), Len(pad_df)),
                      LAMBDA pair :
                         /\ TpPartition(tp_df[pair[1]].layer) = name
                         /\ PadPartition(pad_df[pair[2]].layer) = name
                         /\ PadRecord(tp_df[pair[1]], pad_df[pair[2]])
                               \in Records(results_35_4))
    IN  [i \in 1..Len(reported) |->
            PadRecord(tp_df[reported[i][1]], pad_df[reported[i][2]])]

ComponentRecordsInOrder(name) ==
    LET reported ==
            SelectSeq(NestedPairs(Len(tp_df), Len(component_df)),
                      LAMBDA pair :
                         /\ TpPartition(tp_df[pair[1]].layer) = name
                         /\ ComponentPartition(component_df[pair[2]].layer) = name
                         /\ ComponentRecord(tp_df[pair[1]], component_df[pair[2]])
                               \in Records(results_37_4))
    IN  [i \in 1..Len(reported) |->
            ComponentRecord(tp_df[reported[i][1]], component_df[reported[i][2]])]

\* C20: the result lists the TOP records before the BOTTOM records; within a
\* layer the records stand test point by test point in the order of the
\* test-point table, and for one test point in the order of the object table.
C20_InsertionOrder ==
    /\ Ran("criteria_35_4") =>
          results_35_4 = PadRecordsInOrder("TOP") \o PadRecordsInOrder("BOTTOM")
    /\ Ran("criteria_37_4") =>
          results_37_4 = ComponentRecordsInOrder("TOP")
                            \o ComponentRecordsInOrder("BOTTOM")

\* the first test point of the table is on BOTTOM, the second on TOP; the two
\* pads are listed BOTTOM first: the record of the second test point is first
C20_Witness ==
    /\ Ran("criteria_35_4")
    /\ Len(tp_df) = 2 /\ Len(pad_df) = 2
    /\ tp_df[1].layer = "SOLDERMASK_BOTTOM" /\ tp_df[1].testpoint_id = "TP1"
    /\ tp_df[2].layer = "SOLDERMASK_TOP" /\ tp_df[2].testpoint_id = "TP2"
    /\ pad_df[1].layer = "BOTTOM" /\ pad_df[2].layer = "TOP"
    /\ Len(results_35_4) = 2
    /\ results_35_4[1].layer = "TOP" /\ results_35_4[1].testpoint_id = "TP2"
    /\ results_35_4[2].layer = "BOTTOM" /\ results_35_4[2].testpoint_id = "TP1"

HasValue(d, v) ==
    ~d.inf /\ ~IsNaN(d) /\ v - d.lin >= 0 /\ d.num = Sq(v - d.lin) * d.den

\* the rectangle (centre, width, height) with the corners rect_min, rect_max
RectOfCorners(rect_min, rect_max) ==
    <<<<(rect_min[1] + rect_max[1]) \div 2, (rect_min[2] + rect_max[2]) \div 2>>,
      rect_max[1] - rect_min[1], rect_max[2] - rect_min[2]>>

\* d is the value the documentation's worked cases give for the two shapes
ExampleValue(circle, rect, d) ==
    /\ circle = ExampleCircle /\ rect = ExampleRectFar => HasValue(d, Dbl(3))
    /\ circle = ExampleCircle /\ rect = ExampleRectNear => HasValue(d, Dbl(0 - 4))

\* d is the signed distance of the circle centre to the rectangle minus the radius
CentreDistanceLessRadius(circle, rect, d) ==
    d = DSub(_dist_signed_point_to_rect(circle[1], rect[1], rect[2], rect[3]),
             circle[2])

\* C22: for a circle and a rectangle _calculate_distance is the signed distance
\* of the circle centre to the rectangle minus the radius, whichever of the two
\* is the subject (criteria_35_4.py) and for a circular test point over a
\* component box (criteria_37_4.py, the same value as criteria_35_4.py gives);
\* the circle (0,0) r=5 is at 3 from the rectangle centre (10,0) half extents
\* 2,2 and at -4 from the rectangle centre (3,0) half extents 2,2
C22_CircleRectDistance ==
    /\ (Ran("_calculate_distance") /\ call.args[1] = "CIRCLE" /\ call.args[3] = "RECT")
          => /\ CentreDistanceLessRadius(call.args[2], call.args[4], returned)
             /\ returned = _calculate_distance("RECT", call.args[4],
                                               "CIRCLE", call.args[2])
             /\ ExampleValue(call.args[2], call.args[4], returned)
    /\ (Ran("_calculate_distance") /\ call.args[1] = "RECT" /\ call.args[3] = "CIRCLE")
          => /\ CentreDistanceLessRadius(call.args[4], call.args[2], returned)
             /\ returned = _calculate_distance("CIRCLE", call.args[4],
                                               "RECT", call.args[2])
             /\ ExampleValue(call.args[4], call.args[2], returned)
    /\ (Ran("_calculate_distance_37_4") /\ call.args[3] \in {"RECT", "OTHER"})
          => LET circle == call.args[2]
                 rect_min == call.args[4][1]
                 rect_max == call.args[4][2]
                 rect == RectOfCorners(rect_min, rect_max)
             IN  /\ returned = DSub(_dist_signed_point_to_rect_37_4(
                                        circle[1], rect_min, rect_max),
                                    circle[2])
                 /\ returned = _calculate_distance("CIRCLE", circle, "RECT", rect)
                 /\ ExampleValue(circle, rect, returned)

\* the circle (0,0) r=5 was measured against the rectangle centre (3,0) half
\* extents 2,2 and the distance is negative
C22_Witness ==
    /\ Ran("_calculate_distance")
    /\ call.args[1] = "CIRCLE" /\ call.args[3] = "RECT"
    /\ call.args[2] = ExampleCircle /\ call.args[4] = ExampleRectNear
    /\ Lt0(returned)

\* C23: for two circles _calculate_distance is the distance of the centres
\* minus the sum of the radii, the same with the circles swapped, and negative
\* exactly when the centres are closer than the sum of the radii
C23_CircleCircleDistance ==
    (Ran("_calculate_distance") /\ call.args[1] = "CIRCLE" /\ call.args[3] = "CIRCLE")
        => LET A == call.args[2]
               B == call.args[4]
               centres_sq == Sq(A[1][1] - B[1][1]) + Sq(A[1][2] - B[1][2])
               radii == A[2] + B[2]
           IN  /\ ~returned.inf
               /\ returned.lin = 0 - radii
               /\ returned.num = centres_sq * returned.den /\ returned.den > 0
               /\ returned = _calculate_distance("CIRCLE", B, "CIRCLE", A)
               /\ Lt0(returned) <=> centres_sq < Sq(radii)

\* two circles of different radii, centres apart on both axes, that overlap
C23_Witness ==
    /\ Ran("_calculate_distance")
    /\ call.args[1] = "CIRCLE" /\ call.args[3] = "CIRCLE"
    /\ call.args[2][2] # call.args[4][2]
    /\ call.args[2][1][1] # call.args[4][1][1]
    /\ call.args[2][1][2] # call.args[4][1][2]
    /\ Lt0(returned)

\* the extent of the rectangle (centre, width, height) on axis i: <<low, high>>
Extent(rect, i) == <<rect[1][i] - rect[i + 1] \div 2, rect[1][i] + rect[i + 1] \div 2>>

\* the gap between two extents of one axis, 0 when they meet
ExtentGap(e, f) ==
    IF e[2] < f[1] THEN f[1] - e[2] ELSE IF f[2] < e[1] THEN e[1] - f[2] ELSE 0

\* d >= 0 and d * d = n, for d an integer or a pure root
SquareIs(d, n) ==
    /\ ~d.inf /\ ~IsNaN(d)
    /\ \/ d.num = 0 /\ d.lin >= 0 /\ Sq(d.lin) = n
       \/ d.lin = 0 /\ d.num = n * d.den

\* C24: for two rectangles whose extents do not intersect (a gap on the x axis
\* or on the y axis) _calculate_distance is positive and is the Euclidean gap:
\* the gap of the separating axis, and the root of the squares of the two gaps
\* when both axes separate
C24_RectRectSeparation ==
    (Ran("_calculate_distance") /\ call.args[1] = "RECT" /\ call.args[3] = "RECT")
        => LET gap_x == ExtentGap(Extent(call.args[2], 1), Extent(call.args[4], 1))
               gap_y == ExtentGap(Extent(call.args[2], 2), Extent(call.args[4], 2))
           IN  (gap_x > 0 \/ gap_y > 0)
                   => /\ ~Le0(returned)
                      /\ SquareIs(returned, Sq(gap_x) + Sq(gap_y))
                      /\ gap_y = 0 => returned = DInt(gap_x)
                      /\ gap_x = 0 => returned = DInt(gap_y)

\* two rectangles apart on both axes, the subject below and left of the object
C24_Witness ==
    /\ Ran("_calculate_distance")
    /\ call.args[1] = "RECT" /\ call.args[3] = "RECT"
    /\ Extent(call.args[2], 1)[2] < Extent(call.args[4], 1)[1]
    /\ Extent(call.args[2], 2)[2] < Extent(call.args[4], 2)[1]
    /\ call.args[2][2] > 0 /\ call.args[4][3] > 0
    /\ returned.num > 0

\* how far the coordinate i of p lies beyond the extent of the rectangle on that
\* axis: |p - centre| - half extent, negative inside
Excess(p, rect, i) ==
    IF p[i] - Extent(rect, i)[2] >= Extent(rect, i)[1] - p[i]
    THEN p[i] - Extent(rect, i)[2] ELSE Extent(rect, i)[1] - p[i]

Clamped(v) == IF v > 0 THEN v ELSE 0

\* d is the signed distance of p to the rectangle (centre, width, height)
SignedDistanceIs(p, rect, d) ==
    LET ex == Excess(p, rect, 1)
        ey == Excess(p, rect, 2)
    IN  /\ (ex <= 0 /\ ey <= 0) => d = DInt(IF ex >= ey THEN ex ELSE ey)
        /\ (ex > 0 \/ ey > 0) => SquareIs(d, Sq(Clamped(ex)) + Sq(Clamped(ey)))
        /\ Lt0(d) <=> (ex < 0 /\ ey < 0)
        /\ Eq0(d) <=> (ex <= 0 /\ ey <= 0 /\ (ex = 0 \/ ey = 0))
        /\ (~d.inf /\ ~IsNaN(d) /\ ~Le0(d)) <=> (ex > 0 \/ ey > 0)

\* C25: _dist_signed_point_to_rect is max(|px-cx|-half_w, |py-cy|-half_h) for a
\* point inside or on the rectangle and the norm of the excesses clamped at 0
\* for a point outside: negative exactly strictly inside, 0 exactly on the
\* boundary, positive exactly outside, for the rectangle given by centre, width
\* and height (criteria_35_4.py) and by its two corners (criteria_37_4.py)
C25_SignedPointToRect ==
    /\ Ran("_dist_signed_point_to_rect")
          => SignedDistanceIs(call.args[1],
                              <<call.args[2], call.args[3], call.args[4]>>, returned)
    /\ Ran("_dist_signed_point_to_rect_37_4")
          => SignedDistanceIs(call.args[1],
                              RectOfCorners(call.args[2], call.args[3]), returned)

\* a point strictly inside a rectangle given by its corners, nearer to a
\* vertical side than to a horizontal one
C25_Witness ==
    /\ Ran("_dist_signed_point_to_rect_37_4")
    /\ Excess(call.args[1], RectOfCorners(call.args[2], call.args[3]), 2)
          < Excess(call.args[1], RectOfCorners(call.args[2], call.args[3]), 1)
    /\ Excess(call.args[1], RectOfCorners(call.args[2], call.args[3]), 1) < 0
    /\ Lt0(returned)

\* the squared distance of two points
DistSq(p, q) == Sq(p[1] - q[1]) + Sq(p[2] - q[2])

\* d >= 0 and d * d = n / m, for d a pure root
SquareIsRatio(d, n, m) ==
    ~d.inf /\ ~IsNaN(d) /\ d.lin = 0 /\ d.num * m = n * d.den

\* C26: _dist_point_to_segment(p, a, b) is the distance from p to a when
\* a = b; otherwise the distance from p to a + t(b - a), t = (p-a).(b-a)/|b-a|^2
\* clamped to [0,1]: the distance to a for t <= 0, to b for t >= 1, to the foot
\* of the perpendicular in between, and so the distance to the nearer
\* endpoint whenever the projection falls outside the segment
C26_PointToSegment ==
    Ran("_dist_point_to_segment")
        => LET p == call.args[1]
               a == call.args[2]
               b == call.args[3]
               dot == (p[1] - a[1]) * (b[1] - a[1]) + (p[2] - a[2]) * (b[2] - a[2])
               len_sq == DistSq(a, b)
               nearer_sq == IF DistSq(p, a) <= DistSq(p, b)
                            THEN DistSq(p, a) ELSE DistSq(p, b)
           IN  /\ a = b => SquareIs(returned, DistSq(p, a))
               /\ (a # b /\ dot <= 0) => SquareIs(returned, DistSq(p, a))
               /\ (a # b /\ dot >= len_sq) => SquareIs(returned, DistSq(p, b))
               /\ (a # b /\ 0 < dot /\ dot < len_sq)
                     => SquareIsRatio(returned, DistSq(p, a) * len_sq - Sq(dot), len_sq)
               /\ (a # b /\ (dot < 0 \/ dot > len_sq)) => SquareIs(returned, nearer_sq)

\* a point off the line through a and b whose projection falls beyond b
C26_Witness ==
    /\ Ran("_dist_point_to_segment")
    /\ call.args[2] # call.args[3]
    /\ (call.args[1][1] - call.args[2][1]) * (call.args[3][1] - call.args[2][1])
         + (call.args[1][2] - call.args[2][2]) * (call.args[3][2] - call.args[2][2])
       > DistSq(call.args[2], call.args[3])
    /\ (call.args[1][1] - call.args[2][1]) * (call.args[3][2] - call.args[2][2])
       # (call.args[1][2] - call.args[2][2]) * (call.args[3][1] - call.args[2][1])
    /\ returned = DRoot(DistSq(call.args[1], call.args[3]), 1)

\* one of the quarter points of the segment (a, b), ends included, lies
\* strictly inside the rectangle (centre, width, height)
QuarterPointInside(a, b, rect) ==
    \E k \in 0..4 :
        \A i \in 1..2 :
            /\ 4 * Extent(rect, i)[1] < 4 * a[i] + k * (b[i] - a[i])
            /\ 4 * a[i] + k * (b[i] - a[i]) < 4 * Extent(rect, i)[2]

\* C27: for a LINE subject and a RECT object _calculate_distance is negative
\* whenever the segment passes through the interior of the rectangle, also
\* when both ends of the segment lie outside the rectangle
C27_SegmentRectOverlap ==
    (Ran("_calculate_distance") /\ call.args[1] = "LINE" /\ call.args[3] = "RECT")
        => (QuarterPointInside(call.args[2][1], call.args[2][2], call.args[4])
                => Lt0(returned))

\* the table with every test point recorded as a circle: shape_name CIRCLE,
\* height = width; all other columns as they are
RecordedAsCircles(df) ==
    [i \in 1..Len(df) |->
        [df[i] EXCEPT !.shape_name = "CIRCLE", !.height = df[i].width,
                      !.nan = df[i].nan \ {"height"}]]

\* C28: a matcher gives for a table of test points the result it gives for the
\* same table with shape_name set to CIRCLE and height set to width, so that two
\* tables that differ only in shape_name or height get the same result
C28_TestPointsAreCircles ==
    /\ Ran("criteria_35_4")
          => results_35_4 = judge_tp_pad_pin_positions(RecordedAsCircles(tp_df), pad_df)
    /\ (Ran("criteria_37_4") /\ tp_df # <<>> /\ component_df # <<>>)
          => results_37_4 = judge_tp_component_coverage(RecordedAsCircles(tp_df),
                                                       component_df)

\* a test point recorded as a rectangle higher than wide was matched as a
\* circle of its width and overlaps a pad
C28_Witness ==
    /\ Ran("criteria_35_4")
    /\ Len(tp_df) = 1
    /\ tp_df[1].shape_name = "RECTANGLE"
    /\ tp_df[1].height > tp_df[1].width
    /\ tp_df[1].nan = {}
    /\ results_35_4 # <<>>

\* the rows of the sheet that belong to the component id on the layer: on a
\* place-bound layer, not TEXT
SheetGroup(id, layer) ==
    {i \in DOMAIN sym_name_df :
        /\ sym_name_df[i].REFDES = id
        /\ sym_name_df[i].SUBCLASS = layer
        /\ layer \in {"PLACE_BOUND_TOP", "PLACE_BOUND_BOTTOM"}
        /\ sym_name_df[i].GRAPHIC_DATA_NAME # "TEXT"}

\* the numbers the rows I hold in the columns cols
SheetNumbers(I, cols) ==
    {v \in 0..MaxSheetCoord :
        \E i \in I : \E col \in cols \ sym_name_df[i].nan : sym_name_df[i][col] = v}

\* low and high are the least and the greatest of the numbers S, and both
\* are missing when there is no number
BoundsOf(S, row, low, high) ==
    IF S = {} THEN low \in row.nan /\ high \in row.nan
    ELSE /\ low \notin row.nan /\ high \notin row.nan
         /\ row[low] \in S /\ row[high] \in S
         /\ \A v \in S : row[low] <= v /\ v <= row[high]
         /\ row[low] <= row[high]

IsHeaderLine(i) == startswith(strip(file[i]), <<"A", "!">>)
IsDataLine(i) ==
    \/ startswith(strip(file[i]), <<"J", "!">>)
    \/ startswith(strip(file[i]), <<"S", "!">>)

\* the header line h with the information and data lines between it and the
\* next header line, in the order of the file
TableOfHeader(h) ==
    LET later == {i \in DOMAIN file : i > h /\ IsHeaderLine(i)}
        last == IF later = {} THEN Len(file)
                ELSE (CHOOSE i \in later : \A j \in later : i <= j) - 1
        RECURSIVE collect(_)
        collect(i) ==
            IF i > last THEN <<>>
            ELSE IF IsDataLine(i) THEN <<strip(file[i])>> \o collect(i + 1)
            ELSE collect(i + 1)
    IN  <<strip(file[h])>> \o collect(h + 1)

\* C30: every stored table is one 'A!' line followed by 'J!' and 'S!' lines
\* only; when parse_cadence_file has returned there are as many tables as 'A!'
\* lines in the file, and the tables are exactly: each 'A!' line with the 'J!'
\* and 'S!' lines up to the next 'A!' line, in file order - so 'J!' and 'S!'
\* lines before the first 'A!' line, blank lines and other lines are in no table
C30_TableSplitter ==
    /\ \A name \in DOMAIN tables :
          /\ Len(tables[name]) >= 1
          /\ startswith(tables[name][1], <<"A", "!">>)
          /\ \A i \in 2..Len(tables[name]) :
                \/ startswith(tables[name][i], <<"J", "!">>)
                \/ startswith(tables[name][i], <<"S", "!">>)
    /\ Ran("parse_cadence_file") =>
          /\ Cardinality(DOMAIN tables)
               = Cardinality({h \in DOMAIN file : IsHeaderLine(h)})
          /\ \A h \in {h \in DOMAIN file : IsHeaderLine(h)} :
                \E name \in DOMAIN tables : tables[name] = TableOfHeader(h)
          /\ \A name \in DOMAIN tables :
                \E h \in {h \in DOMAIN file : IsHeaderLine(h)} :
                    tables[name] = TableOfHeader(h)

\* a data line, a header, a data line, a header with the same first column:
\* two tables, the first of two lines
C30_Witness ==
    /\ Ran("parse_cadence_file")
    /\ Len(file) = 4
    /\ IsDataLine(1) /\ IsHeaderLine(2) /\ IsDataLine(3) /\ IsHeaderLine(4)
    /\ file[2] # file[4]
    /\ Cardinality(DOMAIN tables) = 2
    /\ \E name \in DOMAIN tables : Len(tables[name]) = 2
    /\ \A name \in DOMAIN tables : SubSeq(name, 9, Len(name)) = <<"_", "n">>

====
